---- MODULE Spec2Model ----
(***************************************************************************)
(* A model of the NexLang front end and block engine: the scoped symbol    *)
(* table (symbol/symbol_table.h), the lexer (lexer/lexer.cpp), the parser  *)
(* (perser/parser.cpp), the semantic analyzer, the block engine and the    *)
(* command-line driver.                                                    *)
(*                                                                         *)
(* Source text and lexemes are TLA+ strings; a character is a string of    *)
(* length one.  A Scope chain is a sequence of scopes, root first: the     *)
(* last element is SymbolTable::currentScope and the element before a      *)
(* scope is its parent.                                                    *)
(***************************************************************************)
EXTENDS Integers, Sequences, FiniteSets, TLC

VARIABLES
    \* ---- SymbolTable under test (symbol/symbol_table.h)
    scopes,      \* the chain root .. currentScope; each scope maps names to symbols
    nextId,      \* identity of the next Symbol object make_shared allocates
    liveDefs,    \* history: defineVariable calls whose scope is still on the chain
    exited,      \* history: identity and name of the symbols of scopes that were exited
    lastOp,      \* the SymbolTable call made by the last step, with its arguments
    lastRet,     \* what that call returned
    \* ---- Lexer (lexer/lexer.cpp)
    lexer,       \* the Lexer object: src_, pos_, line_, col_
    tokens,      \* the vector tokenize fills
    lexPc,       \* "loop" inside tokenize's while loop, "done" once it returned
    \* ---- main (the command-line driver)
    pc,          \* the stage main is about to run, "exit" once it returned
    file,        \* the input file: its path, whether it opens, its content
    program,     \* the AST of the first parse
    symbolTable, \* the analyzer's SymbolTable after analyze
    execProgram, \* the AST of the second parse
    ctx,         \* the engine's ExecutionContext when executeProgram returned
    executed,    \* history: the statements and blocks the engine ran one by one
    cout,        \* the lines written to std::cout
    cerr,        \* the lines written to std::cerr
    exitCode,    \* the value main returned, NoExit while it runs
    \* ---- BuiltinsRegistry (builtins/builtins_registry.h)
    builtins_,   \* the map of the registry: a name to its Builtin
    invoked,     \* the call made on the registry by the last step, with its result
    \* ---- Value (runtime/value.h)
    applied,     \* the operator of Value applied by the last step, with its result
    \* ---- Parser on its own (perser/parser.cpp)
    parsed       \* the parse made by the last step: its text, tokens and result

symVars == <<scopes, nextId, liveDefs, exited, lastOp, lastRet>>
lexVars == <<lexer, tokens, lexPc>>
mainVars ==
    <<pc, file, program, symbolTable, execProgram, ctx, executed, cout, cerr, exitCode>>
regVars == <<builtins_, invoked>>
valVars == <<applied>>
parVars == <<parsed>>
vars ==
    <<scopes, nextId, liveDefs, exited, lastOp, lastRet, lexer, tokens, lexPc,
      pc, file, program, symbolTable, execProgram, ctx, executed, cout, cerr, exitCode,
      builtins_, invoked, applied, parsed>>

(***************************************************************************)
(* Bounds of the model.                                                    *)
(***************************************************************************)
MaxDepth == 3      \* scopes on the chain, the root included
MaxSyms == 2       \* defineVariable calls in one run
MaxSrcLen == 4     \* characters of a source text given to the lexer alone
MaxSections == 2   \* sections of a program given to the driver
MaxSteps == 3      \* statements and blocks given to the engine one by one
MaxArgs == 3       \* arguments given to the implementation of a builtin

(***************************************************************************)
(* runtime/value.h: Value.  A float is modelled by an integer: w * One + t  *)
(* is the double w + t * (1e-10 / Epsilon), for a whole number w and an    *)
(* offset t of a few units, so that the doubles around a whole number are  *)
(* told apart on both sides of the 1e-10 the comparisons of Value use.     *)
(***************************************************************************)
One == 64       \* the double 1.0
Epsilon == 4    \* the double 1e-10

\* std::abs
Abs(f) == IF f < 0 THEN 0 - f ELSE f

StringValue(s) == [type |-> "STRING", str |-> s]
FloatValue(f) == [type |-> "FLOAT", num |-> f]
BoolValue(b) == [type |-> "BOOL", bool |-> b]
HandleValue(t, p, i) == [type |-> "HANDLE", handle |-> [type |-> t, ptr |-> p, id |-> i]]
DefaultValue == StringValue("")

(***************************************************************************)
(* symbol/symbol_table.h: Symbol and its subclasses.                       *)
(***************************************************************************)
Null == [type |-> "nullptr"]

VariableSymbol(n, v, mut, id) ==
    [name |-> n, type |-> "VARIABLE", value |-> v, isMutable |-> mut, id |-> id]

BuiltInSymbol(n, impl) ==
    [name |-> n, type |-> "BUILTIN", value |-> DefaultValue,
     implementation |-> impl, id |-> 0]

FunctionSymbol(n, params, id) ==
    [name |-> n, type |-> "FUNCTION", value |-> DefaultValue,
     paramNames |-> params, id |-> id]

OperationSymbol(n, params, id) ==
    [name |-> n, type |-> "OPERATION", value |-> DefaultValue,
     paramNames |-> params, id |-> id]

(***************************************************************************)
(* Scope: symbols is a function from the names bound in the scope.         *)
(***************************************************************************)
EmptyScope == [n \in {} |-> Null]

\* Scope::define: symbols[name] = symbol
Scope_define(scope, name, symbol) ==
    [n \in (DOMAIN scope) \cup {name} |-> IF n = name THEN symbol ELSE scope[n]]

\* Scope::hasLocal
hasLocal(scope, name) == name \in DOMAIN scope

\* The index on the chain of the scope Scope::lookup stops at, 0 when it
\* reaches the root's null parent.
RECURSIVE LookupIndex(_, _, _)
LookupIndex(chain, i, name) ==
    IF i = 0 THEN 0
    ELSE IF hasLocal(chain[i], name) THEN i
    ELSE LookupIndex(chain, i - 1, name)

\* A faulty variant of Scope_lookup: the walk starts at the root, so the outermost
\* binding wins.
RECURSIVE OutermostIndex(_, _, _)
OutermostIndex(chain, i, name) ==
    IF i > Len(chain) THEN 0
    ELSE IF hasLocal(chain[i], name) THEN i
    ELSE OutermostIndex(chain, i + 1, name)

Scope_lookup_Outermost(chain, name) ==
    LET i == OutermostIndex(chain, 1, name)
    IN  IF i = 0 THEN Null ELSE chain[i][name]

\* Scope::lookup from the last scope of chain, walking the parents
Scope_lookup(chain, name) ==
    LET i == LookupIndex(chain, Len(chain), name)
    IN  IF i = 0 THEN Null ELSE chain[i][name]

(***************************************************************************)
(* SymbolTable.  Each operation maps the chain to the chain after it.      *)
(***************************************************************************)
\* SymbolTable::initializeBuiltIns into the root scope
initializeBuiltIns(scope) ==
    LET s1 == Scope_define(scope, "Say", BuiltInSymbol("Say", "print"))
        s2 == Scope_define(s1, "open", BuiltInSymbol("open", "file_open"))
        s3 == Scope_define(s2, "Read", BuiltInSymbol("Read", "file_read"))
        s4 == Scope_define(s3, "Write", BuiltInSymbol("Write", "file_write"))
    IN  Scope_define(s4, "DO", BuiltInSymbol("DO", "execute"))

\* SymbolTable::SymbolTable
NewSymbolTable == <<initializeBuiltIns(EmptyScope)>>

\* A faulty variant of enterScope: the new scope starts as a copy of its parent.
enterScope_Copy(chain) == Append(chain, chain[Len(chain)])

\* SymbolTable::enterScope
enterScope(chain) == Append(chain, EmptyScope)

\* A faulty variant of exitScope: no test of the parent, the root is popped too.
exitScope_Underflow(chain) == SubSeq(chain, 1, Len(chain) - 1)

\* SymbolTable::exitScope
exitScope(chain) ==
    IF Len(chain) > 1 THEN SubSeq(chain, 1, Len(chain) - 1) ELSE chain

\* A faulty variant of define: the symbol is installed in the root scope.
define_Root(chain, symbol) ==
    [chain EXCEPT ![1] = Scope_define(chain[1], symbol.name, symbol)]

\* SymbolTable::define
define(chain, symbol) ==
    [chain EXCEPT ![Len(chain)] = Scope_define(chain[Len(chain)], symbol.name, symbol)]

\* SymbolTable::lookup
lookup(chain, name) == Scope_lookup(chain, name)

\* SymbolTable::defineVariable
defineVariable(chain, name, value, isMutable, id) ==
    define(chain, VariableSymbol(name, value, isMutable, id))

\* SymbolTable::hasVariable
hasVariable(chain, name) ==
    LET sym == lookup(chain, name)
    IN  sym # Null /\ sym.type = "VARIABLE"

\* A faulty variant of updateVariable: a name that is not found is created in the
\* current scope.
updateVariable_Create(chain, name, newValue) ==
    LET i == LookupIndex(chain, Len(chain), name)
    IN  IF i = 0
        THEN [chain |-> define(chain, VariableSymbol(name, newValue, TRUE, 0)),
              ret |-> FALSE, thrown |-> "none"]
        ELSE IF chain[i][name].type = "VARIABLE" /\ chain[i][name].isMutable
        THEN [chain |-> [chain EXCEPT ![i][name].value = newValue],
              ret |-> TRUE, thrown |-> "none"]
        ELSE [chain |-> chain, ret |-> FALSE, thrown |-> "none"]

\* A faulty variant of updateVariable: the found variable is rebound by a define in
\* the current scope instead of in place.
updateVariable_Redefine(chain, name, newValue) ==
    LET sym == lookup(chain, name)
    IN  IF sym # Null /\ sym.type = "VARIABLE" /\ sym.isMutable
        THEN [chain |-> define(chain, [sym EXCEPT !.value = newValue]),
              ret |-> TRUE, thrown |-> "none"]
        ELSE [chain |-> chain, ret |-> FALSE, thrown |-> "none"]

\* SymbolTable::updateVariable: the chain after the call, the bool it
\* returns and the exception it throws (it throws none).  The symbol
\* lookup returns is the object held by the innermost scope binding name;
\* its value is assigned through that pointer.
updateVariable(chain, name, newValue) ==
    LET i == LookupIndex(chain, Len(chain), name)
        sym == lookup(chain, name)
    IN  IF sym # Null /\ sym.type = "VARIABLE" /\ sym.isMutable
        THEN [chain |-> [chain EXCEPT ![i][name].value = newValue],
              ret |-> TRUE, thrown |-> "none"]
        ELSE [chain |-> chain, ret |-> FALSE, thrown |-> "none"]

(***************************************************************************)
(* lexer/lexer.cpp.  pos_ counts from 0 as in the code: the character at   *)
(* pos_ is SubSeq(src_, pos_ + 1, pos_ + 1).                               *)
(***************************************************************************)
kKeywords ==
    {"#START_BLOCK", "#END_BLOCK", "#EXECUTE_BLOCK",
     "DATA", "OPERATION", "FUNCTION", "SYSTEM_CALL",
     "Let", "NOW", "DO", "Until", "Run", "If", "Else", "While", "Say",
     "open", "Read", "Write", "in_file", "at_Location",
     "Create_operation", "create_function"}

\* A faulty variant of kOperators: the one-character operators come first.
kOperators_ShortFirst ==
    <<"=", "+", "-", "*", "/", "%", "=>", "==", "++", "--">>

kOperators == <<"=>", "==", "++", "--", "=", "+", "-", "*", "/", "%">>

kSymbols == {"(", ")", "{", "}", "[", "]", ";", ",", "*", "@", ".", "/"}

\* F applied to the value of x: a local of the code that is assigned once
\* and read many times.
Bind(x, F(_)) == CHOOSE r \in {F(v) : v \in {x}} : TRUE

\* The least k with 2^k >= n
RECURSIVE Doublings(_)
Doublings(n) == IF n <= 1 THEN 0 ELSE 1 + Doublings((n + 1) \div 2)

\* <cctype> in the C locale
Digits == {"0", "1", "2", "3", "4", "5", "6", "7", "8", "9"}
Letters ==
    {"a", "b", "c", "d", "e", "f", "g", "h", "i", "j", "k", "l", "m",
     "n", "o", "p", "q", "r", "s", "t", "u", "v", "w", "x", "y", "z",
     "A", "B", "C", "D", "E", "F", "G", "H", "I", "J", "K", "L", "M",
     "N", "O", "P", "Q", "R", "S", "T", "U", "V", "W", "X", "Y", "Z"}
isspace(c) == c \in {" ", "\t", "\n", "\r", "\f"}
isdigit(c) == c \in Digits
isalpha(c) == c \in Letters
isalnum(c) == isalpha(c) \/ isdigit(c)

\* '\0', which peek and peekNext return at the end of the text
NUL == ""

\* Lexer::Lexer
NewLexer(source) ==
    [src_ |-> source, pos_ |-> 0, line_ |-> 1, col_ |-> 1, oob |-> FALSE]

\* Lexer::isAtEnd
isAtEnd(L) == L.pos_ >= Len(L.src_)

\* src_[i]; reading at or past size() is undefined behaviour
CharAt(src, i) == IF i < Len(src) THEN SubSeq(src, i + 1, i + 1) ELSE NUL

\* Lexer::peek
lexPeek(L) == IF isAtEnd(L) THEN NUL ELSE CharAt(L.src_, L.pos_)

\* Lexer::peekNext
peekNext(L) ==
    IF L.pos_ + 1 >= Len(L.src_) THEN NUL ELSE CharAt(L.src_, L.pos_ + 1)

\* Lexer::advance: the lexer after it; the character it returns is the one
\* at the old pos_.  oob records a read of src_ outside the text.
lexAdvance(L) ==
    LET c == CharAt(L.src_, L.pos_)
    IN  [L EXCEPT !.pos_ = L.pos_ + 1,
                  !.line_ = IF c = "\n" THEN L.line_ + 1 ELSE L.line_,
                  !.col_ = IF c = "\n" THEN 1 ELSE L.col_ + 1,
                  !.oob = L.oob \/ L.pos_ >= Len(L.src_)]

\* Lexer::skipWhitespace
RECURSIVE skipWhitespace(_)
skipWhitespace(L) ==
    IF ~isAtEnd(L) /\ isspace(lexPeek(L))
    THEN skipWhitespace(lexAdvance(L))
    ELSE L

\* Lexer::makeToken
makeToken(type, lex, line, col) ==
    [type |-> type, lexeme |-> lex, line |-> line, column |-> col]

\* The while loop of scanComment
RECURSIVE CommentLoop(_, _)
CommentLoop(L, lex) ==
    IF ~isAtEnd(L) /\ lexPeek(L) # "\n"
    THEN CommentLoop(lexAdvance(L), lex \o lexPeek(L))
    ELSE [L |-> L, lex |-> lex]

\* Lexer::scanComment
scanComment(L, line, col) ==
    LET r == CommentLoop(lexAdvance(lexAdvance(L)), "")
    IN  [L |-> r.L, tok |-> makeToken("Comment", r.lex, line, col)]

\* The while loop of scanIdentifierOrKeyword
RECURSIVE IdentLoop(_, _)
IdentLoop(L, lex) ==
    IF ~isAtEnd(L) /\ (isalnum(lexPeek(L)) \/ lexPeek(L) \in {"_", "#"})
    THEN IdentLoop(lexAdvance(L), lex \o lexPeek(L))
    ELSE [L |-> L, lex |-> lex]

\* Lexer::scanIdentifierOrKeyword
scanIdentifierOrKeyword(L, line, col) ==
    LET r == IdentLoop(L, "")
    IN  [L |-> r.L,
         tok |-> IF r.lex \in kKeywords
                 THEN makeToken("Keyword", r.lex, line, col)
                 ELSE makeToken("Identifier", r.lex, line, col)]

\* The while loop of scanNumber
RECURSIVE NumberLoop(_, _)
NumberLoop(L, lex) ==
    IF ~isAtEnd(L) /\ isdigit(lexPeek(L))
    THEN NumberLoop(lexAdvance(L), lex \o lexPeek(L))
    ELSE [L |-> L, lex |-> lex]

\* Lexer::scanNumber
scanNumber(L, line, col) ==
    LET r == NumberLoop(L, "")
    IN  [L |-> r.L, tok |-> makeToken("Number", r.lex, line, col)]

\* One iteration of the while loop of scanString, or the return after it
\* at the end of the text: tok is set once the function has returned.
StringStep(S) ==
    IF isAtEnd(S.L)
    THEN [S EXCEPT !.tok = makeToken("Unknown", S.lex, S.line, S.col)]
    ELSE IF lexPeek(S.L) = "\""
    THEN [S EXCEPT !.L = lexAdvance(S.L),
                   !.tok = makeToken("String", S.lex, S.line, S.col)]
    ELSE IF lexPeek(S.L) = "\n"
    THEN [S EXCEPT !.L = lexAdvance(S.L),
                   !.tok = makeToken("Unknown", S.lex, S.line, S.col)]
    ELSE [S EXCEPT !.L = lexAdvance(S.L), !.lex = S.lex \o lexPeek(S.L)]

\* The while loop of scanString run for at most 2^k iterations
RECURSIVE StringRuns(_, _)
StringRuns(S, k) ==
    IF S.tok.type # "none" THEN S
    ELSE IF k = 0 THEN StringStep(S)
    ELSE Bind(StringRuns(S, k - 1), LAMBDA T : StringRuns(T, k - 1))

\* The while loop of scanString and the return after it: an iteration
\* consumes a character, and the return follows the last one.
StringLoop(L, lex, line, col) ==
    Bind(StringRuns([L |-> L, lex |-> lex, line |-> line, col |-> col,
                     tok |-> [type |-> "none"]],
                    Doublings(Len(L.src_) + 1)),
         LAMBDA S : [L |-> S.L, tok |-> S.tok])

\* Lexer::scanString
scanString(L, line, col) == StringLoop(lexAdvance(L), "", line, col)

\* src_.compare(pos_, op.size(), op) == 0
StartsWith(L, op) ==
    /\ L.pos_ + Len(op) <= Len(L.src_)
    /\ SubSeq(L.src_, L.pos_ + 1, L.pos_ + Len(op)) = op

\* op.size() calls of advance
RECURSIVE AdvanceBy(_, _)
AdvanceBy(L, n) == IF n = 0 THEN L ELSE AdvanceBy(lexAdvance(L), n - 1)

\* Lexer::matchOperator from the i-th entry of kOperators on: the lexer
\* after it and the operator matched, ok FALSE for std::nullopt.
RECURSIVE MatchFrom(_, _)
MatchFrom(L, i) ==
    IF i > Len(kOperators) THEN [ok |-> FALSE, L |-> L, op |-> ""]
    ELSE IF StartsWith(L, kOperators[i])
    THEN [ok |-> TRUE, L |-> AdvanceBy(L, Len(kOperators[i])), op |-> kOperators[i]]
    ELSE MatchFrom(L, i + 1)

\* Lexer::matchOperator
matchOperator(L) == MatchFrom(L, 1)

\* The if / else-if chain of tokenize's loop body, at a lexer that is not
\* at the end: the lexer after the branch taken and the token it pushes.
DispatchToken(L) ==
    LET c == lexPeek(L)
        m == matchOperator(L)
    IN  IF c = "/" /\ peekNext(L) = "/" THEN scanComment(L, L.line_, L.col_)
        ELSE IF c = "\"" THEN scanString(L, L.line_, L.col_)
        ELSE IF isdigit(c) THEN scanNumber(L, L.line_, L.col_)
        ELSE IF isalpha(c) \/ c \in {"_", "#"}
        THEN scanIdentifierOrKeyword(L, L.line_, L.col_)
        ELSE IF m.ok
        THEN [L |-> m.L, tok |-> makeToken("Operator", m.op, L.line_, L.col_)]
        ELSE IF c \in kSymbols
        THEN [L |-> lexAdvance(L), tok |-> makeToken("Symbol", c, L.line_, L.col_)]
        ELSE [L |-> lexAdvance(L), tok |-> makeToken("Unknown", c, L.line_, L.col_)]

\* A faulty variant of LoopBody: an unrecognized character is consumed
\* and no token is pushed for it.
LoopBody_DropUnknown(L, toks) ==
    LET L1 == skipWhitespace(L)
    IN  IF isAtEnd(L1) THEN [L |-> L1, tokens |-> toks]
        ELSE LET r == DispatchToken(L1)
             IN  [L |-> r.L,
                  tokens |-> IF r.tok.type = "Unknown" /\ lexPeek(L1) # "\""
                             THEN toks ELSE Append(toks, r.tok)]

\* One iteration of the while loop of tokenize, entered with !isAtEnd():
\* skipWhitespace, the break at the end of the text, else one token pushed.
LoopBody(L, toks) ==
    LET L1 == skipWhitespace(L)
    IN  IF isAtEnd(L1) THEN [L |-> L1, tokens |-> toks]
        ELSE LET r == DispatchToken(L1)
             IN  [L |-> r.L, tokens |-> Append(toks, r.tok)]

\* The statements of tokenize after its loop: the EndOfFile token.
PushEndOfFile(L, toks) == Append(toks, makeToken("EndOfFile", "", L.line_, L.col_))

\* The while loop of tokenize run for at most 2^k iterations: the first
\* half of them, then the second half from where the first half stopped.
RECURSIVE LoopRuns(_, _)
LoopRuns(S, k) ==
    IF isAtEnd(S.L) THEN S
    ELSE IF k = 0 THEN LoopBody(S.L, S.tokens)
    ELSE Bind(LoopRuns(S, k - 1), LAMBDA T : LoopRuns(T, k - 1))

\* The while loop of tokenize.  An iteration consumes a character at least,
\* so the loop ends within as many iterations as the text has characters.
TokenizeLoop(L, toks) ==
    LoopRuns([L |-> L, tokens |-> toks], Doublings(Len(L.src_)))

\* Lexer::tokenize on a fresh Lexer over source
tokenize(source) ==
    LET r == TokenizeLoop(NewLexer(source), <<>>)
    IN  [L |-> r.L, tokens |-> PushEndOfFile(r.L, r.tokens)]

(***************************************************************************)
(* perser/ast.h: the nodes of the syntax tree.                             *)
(***************************************************************************)
LetStmt(name, value) == [kind |-> "LetStmt", name |-> name, value |-> value]
SayStmt(message) == [kind |-> "SayStmt", message |-> message]
RunOperationStmt(id) == [kind |-> "RunOperationStmt", operationId |-> id]
IfStmt(cond, thenBody, elseBody) ==
    [kind |-> "IfStmt", condition |-> cond, thenBody |-> thenBody, elseBody |-> elseBody]
WhileStmt(cond, body) == [kind |-> "WhileStmt", condition |-> cond, body |-> body]
OpenFileStmt(filename) == [kind |-> "OpenFileStmt", filename |-> filename]
ReadFileStmt(filename) == [kind |-> "ReadFileStmt", filename |-> filename]
WriteFileStmt(content, filename, location) ==
    [kind |-> "WriteFileStmt", content |-> content, filename |-> filename,
     location |-> location]
NowStmt(body) == [kind |-> "NowStmt", body |-> body]
DoStmt(body) == [kind |-> "DoStmt", body |-> body]
UntilStmt(cond) == [kind |-> "UntilStmt", condition |-> cond, body |-> <<>>]
AssignmentStmt(variable, value) ==
    [kind |-> "AssignmentStmt", variable |-> variable, value |-> value]
IncrementStmt(variable, isIncrement) ==
    [kind |-> "IncrementStmt", variable |-> variable, isIncrement |-> isIncrement]
ExecuteBlockStmt(blockId, outputs) ==
    [kind |-> "ExecuteBlockStmt", blockId |-> blockId, outputs |-> outputs]
DataBlock(name, id, statements) ==
    [kind |-> "DataBlock", name |-> name, id |-> id, statements |-> statements]
OperationBlock(name, id, body) ==
    [kind |-> "OperationBlock", name |-> name, id |-> id, body |-> body]
FunctionBlock(name, id, body) ==
    [kind |-> "FunctionBlock", name |-> name, id |-> id, body |-> body]
SystemCallBlock(body) == [kind |-> "SystemCallBlock", body |-> body]
ProgramBlock(blockId, sections) ==
    [kind |-> "ProgramBlock", blockId |-> blockId, sections |-> sections]

\* The node of a parse that did not return
NoNode == [kind |-> "none"]

(***************************************************************************)
(* perser/parser.cpp.  A parser is its token vector, pos_ (from 0) and how *)
(* it stands: "ok" while it runs, "error" once a std::exception was thrown *)
(* (error holds it), "ub" once tokens_[pos_] was read with pos_ at or past *)
(* tokens_.size(), which is undefined behaviour.  A parser that is not     *)
(* "ok" has stopped: no operation changes it.                              *)
(***************************************************************************)
IntMax == 2147483647

\* Parser::Parser
NewParser(toks) ==
    [tokens_ |-> toks, pos_ |-> 0, status |-> "ok", error |-> [what |-> "none"]]

\* A throw of std::runtime_error or of the exception of std::stoi
Throw(P, e) == IF P.status = "ok" THEN [P EXCEPT !.status = "error", !.error = e] ELSE P

\* tokens_[pos_] with pos_ out of range
OutOfRange(P) == P.pos_ >= Len(P.tokens_)
Undefined(P) == IF P.status = "ok" THEN [P EXCEPT !.status = "ub"] ELSE P

\* The parser has stopped, or its next read of tokens_[pos_] is undefined.
Halted(P) == P.status # "ok" \/ OutOfRange(P)
Stop(P) == [P |-> Undefined(P), node |-> NoNode]

\* Parser::peek
peek(P) ==
    IF OutOfRange(P) THEN makeToken("Unknown", "", 0, 0) ELSE P.tokens_[P.pos_ + 1]

\* Parser::advance: the parser after it; the token it returns is peek(P).
advance(P) ==
    IF P.status # "ok" THEN P
    ELSE IF OutOfRange(P) THEN Undefined(P)
    ELSE [P EXCEPT !.pos_ = P.pos_ + 1]

\* The test of Parser::match
Matches(P, type, lexeme) ==
    /\ P.status = "ok"
    /\ ~OutOfRange(P)
    /\ peek(P).type = type
    /\ lexeme # "" => peek(P).lexeme = lexeme

\* Parser::match: the parser after it; it returned Matches(P, type, lexeme).
match(P, type, lexeme) ==
    IF P.status # "ok" THEN P
    ELSE IF OutOfRange(P) THEN Undefined(P)
    ELSE IF Matches(P, type, lexeme) THEN advance(P)
    ELSE P

ParseError(tok) ==
    [what |-> "Parse error near token", lexeme |-> tok.lexeme, line |-> tok.line]
UnknownSection(tok) == [what |-> "Unknown section", lexeme |-> tok.lexeme]
UnknownStatement(tok) == [what |-> "Unknown statement near", lexeme |-> tok.lexeme]

\* Parser::expect
expect(P, type, lexeme) ==
    IF P.status # "ok" THEN P
    ELSE IF OutOfRange(P) THEN Undefined(P)
    ELSE IF Matches(P, type, lexeme) THEN advance(P)
    ELSE Throw(P, ParseError(peek(P)))

\* The value of one decimal digit
DigitValue(c) ==
    CASE c = "0" -> 0 [] c = "1" -> 1 [] c = "2" -> 2 [] c = "3" -> 3
      [] c = "4" -> 4 [] c = "5" -> 5 [] c = "6" -> 6 [] c = "7" -> 7
      [] c = "8" -> 8 [] c = "9" -> 9

\* The digit run of std::stoi / std::stod from position i (from 0) with
\* the value n read so far: where it ends, its value, and whether the value
\* left the range of int.
RECURSIVE DigitRun(_, _, _, _)
DigitRun(str, i, n, over) ==
    IF i < Len(str) /\ isdigit(CharAt(str, i))
    THEN LET dv == DigitValue(CharAt(str, i))
             big == over \/ n > (IntMax - dv) \div 10
         IN  DigitRun(str, i + 1, IF big THEN 0 ELSE n * 10 + dv, big)
    ELSE [end |-> i, val |-> n, over |-> over]

\* The white space std::stoi / std::stod skip first
RECURSIVE SkipSpace(_, _)
SkipSpace(str, i) ==
    IF i < Len(str) /\ isspace(CharAt(str, i)) THEN SkipSpace(str, i + 1) ELSE i

\* std::stoi(str): white space, an optional sign, decimal digits; what it
\* throws when there is no digit or the value is out of range.
stoi(str) ==
    LET i == SkipSpace(str, 0)
        signed == i < Len(str) /\ CharAt(str, i) \in {"+", "-"}
        j == IF signed THEN i + 1 ELSE i
        r == DigitRun(str, j, 0, FALSE)
    IN  IF r.end = j THEN [ok |-> FALSE, val |-> 0, what |-> "stoi: invalid_argument"]
        ELSE IF r.over THEN [ok |-> FALSE, val |-> 0, what |-> "stoi: out_of_range"]
        ELSE [ok |-> TRUE, what |-> "none",
              val |-> IF signed /\ CharAt(str, i) = "-" THEN 0 - r.val ELSE r.val]

\* std::stoi(advance().lexeme): the parser after it and the int
ParseInt(P) ==
    IF Halted(P) THEN [P |-> Undefined(P), val |-> 0]
    ELSE LET r == stoi(peek(P).lexeme)
         IN  IF r.ok THEN [P |-> advance(P), val |-> r.val]
             ELSE [P |-> Throw(advance(P), [what |-> r.what]), val |-> 0]

\* The loops of parseStatement that collect a condition: the lexemes up to
\* a stop token, joined by single spaces.
IfConditionEnds(tok) == tok.lexeme = "}" \/ tok.type = "EndOfFile"
WhileConditionEnds(tok) ==
    (tok.type = "Operator" /\ tok.lexeme = "=>") \/ tok.type = "EndOfFile"

RECURSIVE IfCondition(_, _, _)
IfCondition(P, cond, first) ==
    IF Halted(P) THEN [P |-> Undefined(P), cond |-> cond]
    ELSE IF IfConditionEnds(peek(P)) THEN [P |-> P, cond |-> cond]
    ELSE IfCondition(advance(P),
                     (IF first THEN cond ELSE cond \o " ") \o peek(P).lexeme, FALSE)

RECURSIVE WhileCondition(_, _, _)
WhileCondition(P, cond, first) ==
    IF Halted(P) THEN [P |-> Undefined(P), cond |-> cond]
    ELSE IF WhileConditionEnds(peek(P)) THEN [P |-> P, cond |-> cond]
    ELSE WhileCondition(advance(P),
                        (IF first THEN cond ELSE cond \o " ") \o peek(P).lexeme, FALSE)

\* Parser::parseStatementWithoutSemicolon: the parser after it and the node
parseStatementWithoutSemicolon(P) ==
    IF Halted(P) THEN Stop(P)
    ELSE IF Matches(P, "Keyword", "Let")
    THEN LET P1 == advance(P)
             name == peek(P1).lexeme
             P2 == expect(advance(P1), "Operator", "=")
             value == peek(P2).lexeme
         IN  [P |-> advance(P2), node |-> LetStmt(name, value)]
    ELSE IF Matches(P, "Keyword", "Say")
    THEN LET P1 == advance(P)
         IN  [P |-> advance(P1), node |-> SayStmt(peek(P1).lexeme)]
    ELSE IF peek(P).type = "Identifier"
    THEN LET varName == peek(P).lexeme
             P1 == advance(P)
         IN  IF Halted(P1) THEN Stop(P1)
             ELSE IF Matches(P1, "Operator", "=")
             THEN LET P2 == advance(P1)
                  IN  [P |-> advance(P2),
                       node |-> AssignmentStmt(varName, peek(P2).lexeme)]
             ELSE IF Matches(P1, "Operator", "++")
             THEN [P |-> advance(P1), node |-> IncrementStmt(varName, TRUE)]
             ELSE IF Matches(P1, "Operator", "--")
             THEN [P |-> advance(P1), node |-> IncrementStmt(varName, FALSE)]
             ELSE [P |-> Throw(P, UnknownStatement(peek(P))), node |-> NoNode]
    ELSE [P |-> Throw(P, UnknownStatement(peek(P))), node |-> NoNode]

\* The loops of NOW { ... } and DO { ... }: statements up to the closing brace
RECURSIVE BraceBody(_, _)
BraceBody(P, body) ==
    IF Halted(P) THEN [P |-> Undefined(P), body |-> body]
    ELSE IF peek(P).type = "EndOfFile" \/ peek(P).lexeme = "}"
    THEN [P |-> P, body |-> body]
    ELSE Bind(parseStatementWithoutSemicolon(P), LAMBDA r :
              IF r.P.status # "ok" THEN [P |-> r.P, body |-> body]
              ELSE BraceBody(r.P, Append(body, r.node)))

\* parseStatement from `open` on: the alternatives after If and While
StatementAfterWhile(P) ==
    IF Halted(P) THEN Stop(P)
    ELSE IF Matches(P, "Keyword", "open")
    THEN LET P1 == advance(P)
         IN  [P |-> expect(advance(P1), "Symbol", ";"),
              node |-> OpenFileStmt(peek(P1).lexeme)]
    ELSE IF Matches(P, "Keyword", "Read")
    THEN LET P1 == advance(P)
         IN  [P |-> expect(advance(P1), "Symbol", ";"),
              node |-> ReadFileStmt(peek(P1).lexeme)]
    ELSE IF Matches(P, "Keyword", "Write")
    THEN LET P1 == advance(P)
             P2 == expect(advance(P1), "Keyword", "in_file")
             P3 == expect(advance(P2), "Keyword", "at_Location")
         IN  [P |-> expect(advance(P3), "Symbol", ";"),
              node |-> WriteFileStmt(peek(P1).lexeme, peek(P2).lexeme, peek(P3).lexeme)]
    ELSE IF Matches(P, "Keyword", "NOW")
    THEN Bind(BraceBody(expect(advance(P), "Symbol", "{"), <<>>), LAMBDA r :
              [P |-> expect(expect(r.P, "Symbol", "}"), "Symbol", ";"),
               node |-> NowStmt(r.body)])
    ELSE IF Matches(P, "Keyword", "DO")
    THEN LET P1 == advance(P)
         IN  IF Halted(P1) THEN Stop(P1)
             ELSE IF Matches(P1, "Symbol", "{")
             THEN Bind(BraceBody(advance(P1), <<>>), LAMBDA r :
                       [P |-> expect(expect(r.P, "Symbol", "}"), "Symbol", ";"),
                        node |-> DoStmt(r.body)])
             ELSE [P |-> expect(P1, "Symbol", ";"), node |-> DoStmt(<<>>)]
    ELSE IF Matches(P, "Keyword", "Until")
    THEN LET r == IfCondition(expect(advance(P), "Symbol", "{"), "", TRUE)
         IN  [P |-> expect(expect(r.P, "Symbol", "}"), "Symbol", ";"),
              node |-> UntilStmt(r.cond)]
    ELSE IF peek(P).type = "Identifier"
    THEN LET varName == peek(P).lexeme
             P1 == advance(P)
         IN  IF Halted(P1) THEN Stop(P1)
             ELSE IF Matches(P1, "Operator", "=")
             THEN LET P2 == advance(P1)
                  IN  [P |-> expect(advance(P2), "Symbol", ";"),
                       node |-> AssignmentStmt(varName, peek(P2).lexeme)]
             ELSE IF Matches(P1, "Operator", "++")
             THEN [P |-> expect(advance(P1), "Symbol", ";"),
                   node |-> IncrementStmt(varName, TRUE)]
             ELSE IF Matches(P1, "Operator", "--")
             THEN [P |-> expect(advance(P1), "Symbol", ";"),
                   node |-> IncrementStmt(varName, FALSE)]
             ELSE [P |-> Throw(P, UnknownStatement(peek(P))), node |-> NoNode]
    ELSE [P |-> Throw(P, UnknownStatement(peek(P))), node |-> NoNode]

\* parseStatement from `While` on.  A While that no => follows stays
\* consumed and the later alternatives are tried after it.
StatementAfterIf(P) ==
    IF Halted(P) THEN Stop(P)
    ELSE IF Matches(P, "Keyword", "While")
    THEN LET P1 == advance(P)
         IN  IF Halted(P1) THEN Stop(P1)
             ELSE IF Matches(P1, "Operator", "=>")
             THEN Bind(WhileCondition(advance(P1), "", TRUE), LAMBDA c :
                  Bind(parseStatementWithoutSemicolon(expect(c.P, "Operator", "=>")),
                       LAMBDA r : [P |-> r.P, node |-> WhileStmt(c.cond, <<r.node>>)]))
             ELSE StatementAfterWhile(P1)
    ELSE StatementAfterWhile(P)

\* The rest of an If statement once `If =>` was matched
IfStatementRest(P) ==
    Bind(IfCondition(expect(P, "Symbol", "{"), "", TRUE), LAMBDA c :
    Bind(expect(c.P, "Symbol", "}"), LAMBDA P1 :
    Bind(IF Matches(P1, "Operator", "=>")
         THEN Bind(parseStatementWithoutSemicolon(advance(P1)),
                   LAMBDA r : [P |-> r.P, body |-> <<r.node>>])
         ELSE [P |-> match(P1, "Operator", "=>"), body |-> <<>>], LAMBDA t :
    Bind(match(t.P, "Keyword", "Else"), LAMBDA P2 :
    Bind(IF Matches(t.P, "Keyword", "Else") /\ Matches(P2, "Operator", "=>")
         THEN Bind(parseStatementWithoutSemicolon(advance(P2)),
                   LAMBDA r : [P |-> r.P, body |-> <<r.node>>])
         ELSE [P |-> IF Matches(t.P, "Keyword", "Else")
                     THEN match(P2, "Operator", "=>") ELSE P2,
               body |-> <<>>], LAMBDA e :
    [P |-> e.P, node |-> IfStmt(c.cond, t.body, e.body)])))))

\* Parser::parseStatement: the parser after it and the node
parseStatement(P) ==
    IF Halted(P) THEN Stop(P)
    ELSE IF Matches(P, "Keyword", "Let")
    THEN LET P1 == advance(P)
             name == peek(P1).lexeme
             P2 == expect(advance(P1), "Operator", "=")
             value == peek(P2).lexeme
         IN  [P |-> expect(advance(P2), "Symbol", ";"), node |-> LetStmt(name, value)]
    ELSE IF Matches(P, "Keyword", "Say")
    THEN LET P1 == advance(P)
         IN  [P |-> expect(advance(P1), "Symbol", ";"),
              node |-> SayStmt(peek(P1).lexeme)]
    ELSE IF Matches(P, "Keyword", "Run")
    THEN LET P1 == expect(advance(advance(P)), "Symbol", "[")
             n == ParseInt(P1)
         IN  [P |-> expect(expect(n.P, "Symbol", "]"), "Symbol", ";"),
              node |-> RunOperationStmt(n.val)]
    ELSE IF Matches(P, "Keyword", "If")
    THEN LET P1 == advance(P)
         IN  IF Halted(P1) THEN Stop(P1)
             ELSE IF Matches(P1, "Operator", "=>")
             THEN IfStatementRest(advance(P1))
             ELSE StatementAfterIf(P1)
    ELSE StatementAfterIf(P)

\* The loop `while (!match(Symbol, "}"))` of the four section parsers
RECURSIVE SectionBody(_, _)
SectionBody(P, body) ==
    IF Halted(P) THEN [P |-> Undefined(P), body |-> body]
    ELSE IF Matches(P, "Symbol", "}") THEN [P |-> advance(P), body |-> body]
    ELSE IF peek(P).type = "Symbol" /\ peek(P).lexeme = ";"
    THEN SectionBody(advance(P), body)
    ELSE Bind(parseStatement(P), LAMBDA r :
              IF r.P.status # "ok" THEN [P |-> r.P, body |-> body]
              ELSE SectionBody(r.P, Append(body, r.node)))

\* Parser::parseData
parseData(P) ==
    Bind(expect(expect(P, "Keyword", "DATA"), "Symbol", "["), LAMBDA P1 :
    Bind(ParseInt(expect(advance(P1), "Symbol", "[")), LAMBDA id :
    Bind(SectionBody(expect(expect(id.P, "Symbol", "]"), "Symbol", "{"), <<>>), LAMBDA b :
    [P |-> expect(expect(b.P, "Symbol", ";"), "Symbol", "]"),
     node |-> DataBlock(peek(P1).lexeme, id.val, b.body)])))

\* Parser::parseOperation
parseOperation(P) ==
    Bind(expect(advance(expect(expect(P, "Keyword", "OPERATION"), "Symbol", "[")),
                "Symbol", "("), LAMBDA P2 :
    Bind(ParseInt(expect(expect(advance(P2), "Symbol", ")"), "Symbol", "[")), LAMBDA id :
    Bind(SectionBody(expect(expect(id.P, "Symbol", "]"), "Symbol", "{"), <<>>), LAMBDA b :
    [P |-> expect(expect(b.P, "Symbol", ";"), "Symbol", "]"),
     node |-> OperationBlock(peek(P2).lexeme, id.val, b.body)])))

\* Parser::parseFunction
parseFunction(P) ==
    Bind(expect(advance(expect(expect(P, "Keyword", "FUNCTION"), "Symbol", "[")),
                "Symbol", "("), LAMBDA P2 :
    Bind(ParseInt(expect(expect(advance(P2), "Symbol", ")"), "Symbol", "[")), LAMBDA id :
    Bind(SectionBody(expect(expect(id.P, "Symbol", "]"), "Symbol", "{"), <<>>), LAMBDA b :
    [P |-> expect(expect(b.P, "Symbol", ";"), "Symbol", "]"),
     node |-> FunctionBlock(peek(P2).lexeme, id.val, b.body)])))

\* Parser::parseSystemCall
parseSystemCall(P) ==
    Bind(SectionBody(expect(expect(expect(P, "Keyword", "SYSTEM_CALL"), "Symbol", "["),
                            "Symbol", "{"), <<>>), LAMBDA b :
    [P |-> expect(expect(b.P, "Symbol", ";"), "Symbol", "]"),
     node |-> SystemCallBlock(b.body)])

\* parseBlock: the inner loop that skips Comment and Unknown tokens.  An
\* #END_BLOCK right after a skipped token is consumed by its match.
RECURSIVE SkipComments(_)
SkipComments(P) ==
    IF Halted(P) THEN Undefined(P)
    ELSE IF peek(P).type \in {"Comment", "Unknown"}
    THEN LET P1 == advance(P)
         IN  IF Halted(P1) THEN Undefined(P1)
             ELSE IF Matches(P1, "Keyword", "#END_BLOCK") THEN advance(P1)
             ELSE SkipComments(P1)
    ELSE P

\* The condition that ends the section loop of parseBlock
AtBlockEnd(tok) ==
    tok.type = "Keyword" /\ tok.lexeme \in {"#END_BLOCK", "#EXECUTE_BLOCK"}

\* parseBlock: the section loop
RECURSIVE SectionLoop(_, _)
SectionLoop(P, sections) ==
    IF Halted(P) THEN [P |-> Undefined(P), sections |-> sections]
    ELSE IF AtBlockEnd(peek(P)) THEN [P |-> P, sections |-> sections]
    ELSE Bind(SkipComments(P), LAMBDA P1 :
         IF Halted(P1) THEN [P |-> Undefined(P1), sections |-> sections]
         ELSE IF peek(P1).lexeme \in {"DATA", "OPERATION", "FUNCTION", "SYSTEM_CALL"}
         THEN Bind(CASE peek(P1).lexeme = "DATA" -> parseData(P1)
                     [] peek(P1).lexeme = "OPERATION" -> parseOperation(P1)
                     [] peek(P1).lexeme = "FUNCTION" -> parseFunction(P1)
                     [] peek(P1).lexeme = "SYSTEM_CALL" -> parseSystemCall(P1),
                   LAMBDA r :
                     IF r.P.status # "ok" THEN [P |-> r.P, sections |-> sections]
                     ELSE SectionLoop(r.P, Append(sections, r.node)))
         ELSE IF peek(P1).type = "EndOfFile" THEN [P |-> P1, sections |-> sections]
         ELSE [P |-> Throw(P1, UnknownSection(peek(P1))), sections |-> sections])

\* n calls of advance()
RECURSIVE Skip(_, _)
Skip(P, n) == IF n = 0 THEN P ELSE Skip(advance(P), n - 1)

\* parseBlock: one output directive after its `*` and its first word
Directive(P, directive) ==
    IF directive = "store"
    THEN Bind(Skip(P, 3), LAMBDA P1 :
              [P |-> advance(P1),
               text |-> "*store program output in " \o peek(P1).lexeme])
    ELSE IF directive = "show"
    THEN Bind(Skip(P, 3), LAMBDA P1 :
              IF Halted(P1) THEN [P |-> Undefined(P1), text |-> ""]
              ELSE IF peek(P1).type = "Symbol" /\ peek(P1).lexeme = "@"
              THEN [P |-> advance(advance(P1)),
                    text |-> "*show program output in @" \o peek(advance(P1)).lexeme]
              ELSE [P |-> advance(P1),
                    text |-> "*show program output in " \o peek(P1).lexeme])
    ELSE IF directive = "give"
    THEN Bind(expect(Skip(P, 4), "Symbol", "("), LAMBDA P1 :
              [P |-> expect(advance(P1), "Symbol", ")"),
               text |-> "*give program output to BLOCK(" \o peek(P1).lexeme \o ")"])
    ELSE [P |-> P, text |-> "*" \o directive]

\* parseBlock: the loop over the output directives
RECURSIVE Directives(_, _)
Directives(P, outputs) ==
    IF Halted(P) THEN [P |-> Undefined(P), outputs |-> outputs]
    ELSE IF ~(peek(P).type = "Symbol" /\ peek(P).lexeme = "*")
    THEN [P |-> P, outputs |-> outputs]
    ELSE Bind(Directive(advance(advance(P)), peek(advance(P)).lexeme), LAMBDA d :
              IF d.P.status # "ok" THEN [P |-> d.P, outputs |-> outputs]
              ELSE Directives(d.P, Append(outputs, d.text)))

\* parseBlock: the #EXECUTE_BLOCK directive, when the block has one
ExecuteDirective(P, sections) ==
    IF Matches(P, "Keyword", "#EXECUTE_BLOCK")
    THEN Bind(ParseInt(expect(advance(P), "Symbol", "(")), LAMBDA execId :
         Bind(Directives(expect(expect(execId.P, "Symbol", ")"), "Operator", "=>"), <<>>),
              LAMBDA d :
                [P |-> d.P,
                 sections |-> Append(sections, ExecuteBlockStmt(execId.val, d.outputs))]))
    ELSE [P |-> match(P, "Keyword", "#EXECUTE_BLOCK"), sections |-> sections]

\* Parser::parseBlock: the parser after it and the ProgramBlock
parseBlock(P) ==
    Bind(ParseInt(expect(expect(P, "Keyword", "#START_BLOCK"), "Symbol", "(")), LAMBDA id :
    Bind(SectionLoop(expect(expect(id.P, "Symbol", ")"), "Symbol", ";"), <<>>), LAMBDA s :
    Bind(IF Halted(s.P) THEN Undefined(s.P)
         ELSE IF peek(s.P).type = "Keyword" /\ peek(s.P).lexeme = "#END_BLOCK"
         THEN expect(s.P, "Symbol", ";")
         ELSE s.P, LAMBDA P1 :
    Bind(ExecuteDirective(P1, s.sections), LAMBDA x :
    Bind(IF Halted(x.P) THEN Undefined(x.P)
         ELSE IF peek(x.P).type = "Symbol" /\ peek(x.P).lexeme = ";"
         THEN advance(x.P)
         ELSE x.P, LAMBDA P3 :
    [P |-> expect(expect(P3, "Keyword", "#END_BLOCK"), "Symbol", ";"),
     node |-> ProgramBlock(id.val, x.sections)])))))

\* Parser::parseProgram
parseProgram(P) == parseBlock(P)

\* Parser(tokens).parseProgram(): how it ended and what it returned
Parse(toks) ==
    Bind(parseProgram(NewParser(toks)), LAMBDA r :
         [status |-> r.P.status, error |-> r.P.error, pos_ |-> r.P.pos_,
          program |-> IF r.P.status = "ok" THEN r.node ELSE NoNode])

(***************************************************************************)
(* runtime/value.h and the <string> conversions the analyzer and the       *)
(* engine call.  The texts of the model hold whole decimal numbers only:   *)
(* no decimal point, exponent, hexadecimal prefix, inf or nan.             *)
(***************************************************************************)
DigitChar(d) == SubSeq("0123456789", d + 1, d + 1)

\* The decimal digits of a natural number
RECURSIVE NatToString(_)
NatToString(n) ==
    IF n < 10 THEN DigitChar(n) ELSE NatToString(n \div 10) \o DigitChar(n % 10)

\* std::to_string(int)
IntToString(n) == IF n < 0 THEN "-" \o NatToString(0 - n) ELSE NatToString(n)

\* The whole number nearest to a float
Nearest(f) == (f + One \div 2) \div One

\* std::to_string(double): printf's %f, six decimals, which an offset of
\* some 1e-10 does not reach; a negative offset of zero prints -0.000000
DoubleToString(f) ==
    (IF f < 0 /\ Nearest(f) = 0 THEN "-0" ELSE IntToString(Nearest(f))) \o ".000000"

\* std::stod(str): white space, an optional sign, decimal digits; it
\* throws when there is no digit.
stod(str) ==
    LET i == SkipSpace(str, 0)
        signed == i < Len(str) /\ CharAt(str, i) \in {"+", "-"}
        j == IF signed THEN i + 1 ELSE i
        r == DigitRun(str, j, 0, FALSE)
    IN  IF r.end = j THEN [ok |-> FALSE, val |-> 0]
        ELSE [ok |-> TRUE,
              val |-> IF signed /\ CharAt(str, i) = "-" THEN 0 - r.val * One
                      ELSE r.val * One]

\* Value::toString
toString(v) ==
    CASE v.type = "STRING" -> v.str
      [] v.type = "FLOAT" -> DoubleToString(v.num)
      [] v.type = "BOOL" -> IF v.bool THEN "true" ELSE "false"
      [] v.type = "HANDLE" ->
            "<handle:" \o v.handle.type \o ":" \o IntToString(v.handle.id) \o ">"

\* Value::toBool
toBool(v) ==
    CASE v.type = "STRING" -> v.str # ""
      [] v.type = "FLOAT" -> Abs(v.num) > Epsilon
      [] v.type = "BOOL" -> v.bool
      [] v.type = "HANDLE" -> v.handle.ptr # "nullptr"

\* Value::toFloat
toFloat(v) ==
    CASE v.type = "STRING" -> IF stod(v.str).ok THEN stod(v.str).val ELSE 0
      [] v.type = "FLOAT" -> v.num
      [] v.type = "BOOL" -> IF v.bool THEN One ELSE 0
      [] v.type = "HANDLE" -> v.handle.id * One

\* The Value a Let statement binds: try { Value(stod(value)) } catch (...)
\* { Value(value) }
LetValue(value) ==
    IF stod(value).ok THEN FloatValue(stod(value).val) ELSE StringValue(value)

(***************************************************************************)
(* builtins/builtins_registry.h and the operators of Value it uses.  The   *)
(* registry is its map builtins_; an implementation (a lambda) is modelled *)
(* by its name and by Implementation, which applies it: the Value it       *)
(* returns, the lines it writes to std::cout and the exception that left   *)
(* it.                                                                     *)
(***************************************************************************)
\* Value::operator+
Plus(a, b) ==
    IF a.type = "STRING" \/ b.type = "STRING"
    THEN StringValue(toString(a) \o toString(b))
    ELSE FloatValue(toFloat(a) + toFloat(b))

\* Value::operator-
Minus(a, b) == FloatValue(toFloat(a) - toFloat(b))

\* A double the integers of the model do not hold: the operation and its
\* operands stand for it
Inexact(op, f, g) == [op |-> op, left |-> f, right |-> g]

\* The product of two doubles
Product(f, g) ==
    IF f = 0 \/ g = 0 THEN 0
    ELSE IF f = One THEN g
    ELSE IF g = One THEN f
    ELSE IF f % One = 0 /\ g % One = 0 THEN (f * g) \div One
    ELSE Inexact("*", f, g)

\* The quotient of two doubles, the divisor not zero
Quotient(f, g) ==
    IF f = 0 THEN 0
    ELSE IF g = One THEN f
    ELSE IF f = g THEN One
    ELSE IF f % One = 0 /\ g % One = 0 /\ f % g = 0 THEN (f \div g) * One
    ELSE Inexact("/", f, g)

\* Value::operator*
Times(a, b) == FloatValue(Product(toFloat(a), toFloat(b)))

\* What a call returns: the value, the lines written, no exception
Returns(v, lines) == [ret |-> v, out |-> lines, thrown |-> "none"]

\* A call left by an exception
Throws(e) == [ret |-> Null, out |-> <<>>, thrown |-> e]

\* A faulty variant of Over: only a divisor that is exactly zero is refused.
Over_ExactZero(a, b) ==
    IF toFloat(b) = 0 THEN Throws("Division by zero")
    ELSE Returns(FloatValue(Quotient(toFloat(a), toFloat(b))), <<>>)

\* Value::operator/
Over(a, b) ==
    IF Abs(toFloat(b)) < Epsilon THEN Throws("Division by zero")
    ELSE Returns(FloatValue(Quotient(toFloat(a), toFloat(b))), <<>>)

\* The characters of the texts modelled, in the order of their codes
Ascii ==
    " !#$%&()*+,-./0123456789:;<=>?@ABCDEFGHIJKLMNOPQRSTUVWXYZ[]^_abcdefghijklmnopqrstuvwxyz{|}~"

\* The place of a character in that order
CharCode(c) == CHOOSE i \in 1..Len(Ascii) : SubSeq(Ascii, i, i) = c

\* std::string::operator<
RECURSIVE StringLess(_, _)
StringLess(s, t) ==
    IF t = "" THEN FALSE
    ELSE IF s = "" THEN TRUE
    ELSE IF SubSeq(s, 1, 1) # SubSeq(t, 1, 1)
    THEN CharCode(SubSeq(s, 1, 1)) < CharCode(SubSeq(t, 1, 1))
    ELSE StringLess(SubSeq(s, 2, Len(s)), SubSeq(t, 2, Len(t)))

\* Value::operator==
Equals(a, b) ==
    IF a.type = "STRING" \/ b.type = "STRING" THEN toString(a) = toString(b)
    ELSE Abs(toFloat(a) - toFloat(b)) < Epsilon

\* Value::operator!=
NotEquals(a, b) == ~Equals(a, b)

\* Value::operator<
Less(a, b) ==
    IF a.type = "STRING" \/ b.type = "STRING" THEN StringLess(toString(a), toString(b))
    ELSE toFloat(a) < toFloat(b)

\* Value::operator<=
LessEq(a, b) == Less(a, b) \/ Equals(a, b)

\* Value::operator>
Greater(a, b) == ~LessEq(a, b)

\* Value::operator>=
GreaterEq(a, b) == ~Less(a, b)

\* Builtin::Builtin
Builtin(n, k, args, impl) ==
    [name |-> n, kind |-> k, argCount |-> args, implementation |-> impl]

\* BuiltinsRegistry::registerBuiltin
registerBuiltin(builtins, name, kind, argCount, implementation) ==
    [n \in DOMAIN builtins \cup {name} |->
        IF n = name THEN Builtin(name, kind, argCount, implementation) ELSE builtins[n]]

\* BuiltinsRegistry::getBuiltin
getBuiltin(builtins, name) == IF name \in DOMAIN builtins THEN builtins[name] ELSE Null

\* BuiltinsRegistry::isBuiltin
isBuiltin(builtins, name) == name \in DOMAIN builtins

\* The lambdas initializeBuiltins registers, each applied to its arguments
Implementation(impl, args) ==
    CASE impl = "Say" ->
            IF args # <<>> THEN Returns(DefaultValue, <<toString(args[1])>>)
            ELSE Returns(DefaultValue, <<>>)
      [] impl = "open" ->
            IF args # <<>> THEN Returns(HandleValue("file", "nullptr", 1), <<>>)
            ELSE Returns(DefaultValue, <<>>)
      [] impl = "Read" ->
            IF args # <<>> THEN Returns(StringValue("<file_contents>"), <<>>)
            ELSE Returns(DefaultValue, <<>>)
      [] impl = "Write" -> Returns(BoolValue(Len(args) >= 3), <<>>)
      [] impl = "Add" ->
            IF Len(args) >= 2 THEN Returns(Plus(args[1], args[2]), <<>>)
            ELSE Returns(FloatValue(0), <<>>)
      [] impl = "Subtract" ->
            IF Len(args) >= 2 THEN Returns(Minus(args[1], args[2]), <<>>)
            ELSE Returns(FloatValue(0), <<>>)
      [] impl = "Multiply" ->
            IF Len(args) >= 2 THEN Returns(Times(args[1], args[2]), <<>>)
            ELSE Returns(FloatValue(0), <<>>)
      [] impl = "Divide" ->
            IF Len(args) >= 2 THEN Over(args[1], args[2])
            ELSE Returns(FloatValue(0), <<>>)
      [] impl = "Concat" ->
            IF Len(args) >= 2 THEN Returns(Plus(args[1], args[2]), <<>>)
            ELSE Returns(StringValue(""), <<>>)

\* BuiltinsRegistry::initializeBuiltins on the empty map of the constructor
initializeBuiltins ==
    [n \in {"Say", "open", "Read", "Write", "Add", "Subtract", "Multiply", "Divide",
            "Concat"} |->
        CASE n = "Say" -> Builtin(n, "SAY", 1, n)
          [] n = "open" -> Builtin(n, "OPEN_FILE", 1, n)
          [] n = "Read" -> Builtin(n, "READ_FILE", 1, n)
          [] n = "Write" -> Builtin(n, "WRITE_FILE", -1, n)
          [] n \in {"Add", "Subtract", "Multiply", "Divide"} -> Builtin(n, "MATH_OP", 2, n)
          [] n = "Concat" -> Builtin(n, "STRING_OP", 2, n)]

(***************************************************************************)
(* analyzer/semantic_analyzer.h.  The analyzer is its symbol table (the    *)
(* scope chain) and the identity of the next Symbol it allocates.          *)
(***************************************************************************)
NewAnalyzer(chain) == [chain |-> chain, nextId |-> 1]

\* SemanticAnalyzer::visitLetStatement
visitLetStatement(A, stmt) ==
    [A EXCEPT !.chain = defineVariable(A.chain, stmt.name, LetValue(stmt.value),
                                       TRUE, A.nextId),
              !.nextId = A.nextId + 1]

RECURSIVE visitStatement(_, _)

\* for (auto& stmt : body) visitStatement(stmt.get())
RECURSIVE visitStatements(_, _)
visitStatements(A, body) ==
    IF body = <<>> THEN A
    ELSE visitStatements(visitStatement(A, Head(body)), Tail(body))

\* A body visited in a scope of its own: enterScope, the statements, exitScope
visitScoped(A, body) ==
    LET A1 == [A EXCEPT !.chain = enterScope(A.chain)]
        A2 == visitStatements(A1, body)
    IN  [A2 EXCEPT !.chain = exitScope(A2.chain)]

\* SemanticAnalyzer::visitStatement and the visitor of each statement kind
visitStatement(A, stmt) ==
    CASE stmt.kind = "LetStmt" -> visitLetStatement(A, stmt)
      [] stmt.kind = "IfStmt" -> visitScoped(A, stmt.thenBody \o stmt.elseBody)
      [] stmt.kind \in {"WhileStmt", "NowStmt", "DoStmt"} -> visitScoped(A, stmt.body)
      [] stmt.kind = "UntilStmt" -> visitScoped(A, <<>>)
      [] OTHER -> A

\* SemanticAnalyzer::visitOperationBlock
visitOperationBlock(A, opBlock) ==
    visitScoped([A EXCEPT !.chain = define(A.chain,
                                           OperationSymbol(opBlock.name, <<>>, A.nextId)),
                          !.nextId = A.nextId + 1],
                opBlock.body)

\* SemanticAnalyzer::visitFunctionBlock
visitFunctionBlock(A, funcBlock) ==
    visitScoped([A EXCEPT !.chain = define(A.chain,
                                           FunctionSymbol(funcBlock.name, <<>>, A.nextId)),
                          !.nextId = A.nextId + 1],
                funcBlock.body)

\* The loop of visitProgram over the sections
RECURSIVE visitSections(_, _)
visitSections(A, sections) ==
    IF sections = <<>> THEN A
    ELSE LET section == Head(sections)
             A1 == CASE section.kind = "DataBlock" -> visitScoped(A, section.statements)
                     [] section.kind = "OperationBlock" -> visitOperationBlock(A, section)
                     [] section.kind = "FunctionBlock" -> visitFunctionBlock(A, section)
                     [] section.kind = "SystemCallBlock" -> visitScoped(A, section.body)
                     [] OTHER -> A
         IN  visitSections(A1, Tail(sections))

\* visitProgram without a scope of its own: the sections are visited in the
\* scope the table is in
visitProgram_InRoot(A, prog) == visitSections(A, prog.sections)

\* SemanticAnalyzer::visitProgram
visitProgram(A, prog) ==
    LET A1 == visitSections([A EXCEPT !.chain = enterScope(A.chain)], prog.sections)
    IN  [A1 EXCEPT !.chain = exitScope(A1.chain)]

\* SemanticAnalyzer::analyze
analyze(A, prog) == visitProgram(A, prog)

(***************************************************************************)
(* engine/block_engine.h.  The engine at work is its ExecutionContext's    *)
(* symbol table (chain, nextId), the lines it wrote to std::cout (out)     *)
(* and a history of the run: whileRuns counts the executions of a While    *)
(* body, doRuns those of a DO body, thrown is the exception that left the  *)
(* engine ("none": no function of the engine throws).                      *)
(***************************************************************************)
\* ExecutionContext::ExecutionContext
NewExecutionContext ==
    [chain |-> NewSymbolTable, nextId |-> 1, out |-> <<>>, whileRuns |-> 0,
     doRuns |-> 0, thrown |-> "none"]

\* std::cout << line << std::endl
Cout(E, line) == [E EXCEPT !.out = Append(E.out, line)]

\* BlockEngine::executeLetStatement
executeLetStatement(E, stmt) ==
    [E EXCEPT !.chain = defineVariable(E.chain, stmt.name, LetValue(stmt.value),
                                       TRUE, E.nextId),
              !.nextId = E.nextId + 1]

\* A faulty variant of executeSayStatement: the message is always printed
\* as a literal.
executeSayStatement_Literal(E, stmt) == Cout(E, stmt.message)

\* BlockEngine::executeSayStatement
executeSayStatement(E, stmt) ==
    LET symbol == lookup(E.chain, stmt.message)
    IN  IF symbol # Null THEN Cout(E, toString(symbol.value))
        ELSE Cout(E, stmt.message)

\* BlockEngine::executeRunOperationStatement
executeRunOperationStatement(E, stmt) ==
    Cout(E, "Running operation " \o IntToString(stmt.operationId))

\* BlockEngine::executeOpenFileStatement
executeOpenFileStatement(E, stmt) == Cout(E, "Opening file: " \o stmt.filename)

\* BlockEngine::executeReadFileStatement
executeReadFileStatement(E, stmt) == Cout(E, "Reading file: " \o stmt.filename)

\* BlockEngine::executeWriteFileStatement
executeWriteFileStatement(E, stmt) ==
    Cout(E, "Writing to file: " \o stmt.filename \o " content: " \o stmt.content
            \o " at location: " \o stmt.location)

\* BlockEngine::executeUntilStatement: operator<< prints a bool as 1 or 0
executeUntilStatement(E, stmt) ==
    LET symbol == lookup(E.chain, stmt.condition)
    IN  IF symbol # Null
        THEN Cout(E, "Until condition evaluated: "
                     \o (IF toBool(symbol.value) THEN "1" ELSE "0"))
        ELSE Cout(E, "Until condition: " \o stmt.condition)

\* The condition of executeIfStatement
IfConditionResult(E, stmt) ==
    LET symbol == lookup(E.chain, stmt.condition)
    IN  IF symbol # Null THEN toBool(symbol.value) ELSE stmt.condition # ""

RECURSIVE executeStatement(_, _)

\* for (auto& stmt : body) executeStatement(ctx, stmt.get())
RECURSIVE executeStatements(_, _)
executeStatements(E, body) ==
    IF body = <<>> THEN E
    ELSE executeStatements(executeStatement(E, Head(body)), Tail(body))

\* BlockEngine::executeIfStatement
executeIfStatement(E, stmt) ==
    IF IfConditionResult(E, stmt) THEN executeStatements(E, stmt.thenBody)
    ELSE executeStatements(E, stmt.elseBody)

\* BlockEngine::executeWhileStatement: the body once, the condition unread
executeWhileStatement(E, stmt) ==
    executeStatements([E EXCEPT !.whileRuns = E.whileRuns + 1], stmt.body)

\* BlockEngine::executeNowStatement
executeNowStatement(E, stmt) == executeStatements(E, stmt.body)

\* BlockEngine::executeDoStatement: the body once
executeDoStatement(E, stmt) ==
    executeStatements([E EXCEPT !.doRuns = E.doRuns + 1], stmt.body)

\* BlockEngine::executeStatement: a chain of dynamic_casts with no branch
\* for AssignmentStmt and IncrementStmt
executeStatement(E, stmt) ==
    CASE stmt.kind = "LetStmt" -> executeLetStatement(E, stmt)
      [] stmt.kind = "SayStmt" -> executeSayStatement(E, stmt)
      [] stmt.kind = "RunOperationStmt" -> executeRunOperationStatement(E, stmt)
      [] stmt.kind = "IfStmt" -> executeIfStatement(E, stmt)
      [] stmt.kind = "WhileStmt" -> executeWhileStatement(E, stmt)
      [] stmt.kind = "OpenFileStmt" -> executeOpenFileStatement(E, stmt)
      [] stmt.kind = "ReadFileStmt" -> executeReadFileStatement(E, stmt)
      [] stmt.kind = "WriteFileStmt" -> executeWriteFileStatement(E, stmt)
      [] stmt.kind = "NowStmt" -> executeNowStatement(E, stmt)
      [] stmt.kind = "DoStmt" -> executeDoStatement(E, stmt)
      [] stmt.kind = "UntilStmt" -> executeUntilStatement(E, stmt)
      [] OTHER -> E

\* BlockEngine::executeDataBlock
executeDataBlock(E, dataBlock) == executeStatements(E, dataBlock.statements)

\* BlockEngine::executeOperationBlock
executeOperationBlock(E, opBlock) == executeStatements(E, opBlock.body)

\* BlockEngine::executeFunctionBlock
executeFunctionBlock(E, funcBlock) == executeStatements(E, funcBlock.body)

\* BlockEngine::executeSystemCallBlock
executeSystemCallBlock(E, sysBlock) == executeStatements(E, sysBlock.body)

\* for (const auto& output : execBlock->outputs)
RECURSIVE CoutOutputs(_, _)
CoutOutputs(E, outputs) ==
    IF outputs = <<>> THEN E
    ELSE CoutOutputs(Cout(E, "Output: " \o Head(outputs)), Tail(outputs))

\* BlockEngine::executeBlockDirective
executeBlockDirective(E, execBlock) ==
    CoutOutputs(Cout(E, "Executing block " \o IntToString(execBlock.blockId)),
                execBlock.outputs)

\* The loop of executeProgram run from the last section to the first
RECURSIVE executeSections_LastFirst(_, _)
executeSections_LastFirst(E, sections) ==
    IF sections = <<>> THEN E
    ELSE LET section == sections[Len(sections)]
             E1 == CASE section.kind = "DataBlock" -> executeDataBlock(E, section)
                     [] section.kind = "OperationBlock" -> executeOperationBlock(E, section)
                     [] section.kind = "FunctionBlock" -> executeFunctionBlock(E, section)
                     [] section.kind = "SystemCallBlock" -> executeSystemCallBlock(E, section)
                     [] section.kind = "ExecuteBlockStmt" -> executeBlockDirective(E, section)
                     [] OTHER -> E
         IN  executeSections_LastFirst(E1, SubSeq(sections, 1, Len(sections) - 1))

\* The loop of executeProgram over the sections
RECURSIVE executeSections(_, _)
executeSections(E, sections) ==
    IF sections = <<>> THEN E
    ELSE LET section == Head(sections)
             E1 == CASE section.kind = "DataBlock" -> executeDataBlock(E, section)
                     [] section.kind = "OperationBlock" -> executeOperationBlock(E, section)
                     [] section.kind = "FunctionBlock" -> executeFunctionBlock(E, section)
                     [] section.kind = "SystemCallBlock" -> executeSystemCallBlock(E, section)
                     [] section.kind = "ExecuteBlockStmt" -> executeBlockDirective(E, section)
                     [] OTHER -> E
         IN  executeSections(E1, Tail(sections))

\* BlockEngine::executeProgram: the context when it returns
executeProgram(prog) == executeSections(NewExecutionContext, prog.sections)

(***************************************************************************)
(* The symbol table driven by an arbitrary caller.                         *)
(***************************************************************************)
Names == {"x", "y", "Say"}
Values == {FloatValue(One), FloatValue(2 * One)}

NoCall == [op |-> "none"]
VoidRet == [ret |-> "void", thrown |-> "none"]

\* No SymbolTable is under test.
SymIdle ==
    /\ scopes = NewSymbolTable
    /\ nextId = 1
    /\ liveDefs = {}
    /\ exited = {}
    /\ lastOp = NoCall
    /\ lastRet = VoidRet

\* No Lexer is under test.
LexIdle ==
    /\ lexer = NewLexer("")
    /\ tokens = <<>>
    /\ lexPc = "idle"

\* No main is running.
NoExit == -1
MainIdle ==
    /\ pc = "idle"
    /\ file = [path |-> "", openable |-> FALSE, content |-> ""]
    /\ program = NoNode
    /\ symbolTable = <<>>
    /\ execProgram = NoNode
    /\ ctx = NewExecutionContext
    /\ executed = <<>>
    /\ cout = <<>>
    /\ cerr = <<>>
    /\ exitCode = NoExit

\* The registry as its constructor leaves it, no call made on it; no Value
\* operator applied and no Parser run on its own.
NoInvoke == [op |-> "none"]
RegIdle ==
    /\ builtins_ = initializeBuiltins
    /\ invoked = NoInvoke
    /\ applied = NoInvoke
    /\ parsed = NoInvoke

SymInit ==
    /\ SymIdle
    /\ LexIdle
    /\ MainIdle
    /\ RegIdle

\* The identities of the symbols held by a scope, each with its name.
IdsOf(scope) == {[id |-> scope[n].id, name |-> n] : n \in DOMAIN scope}

EnterScope ==
    /\ Len(scopes) < MaxDepth
    /\ scopes' = enterScope(scopes)
    /\ lastOp' = [op |-> "enterScope"]
    /\ lastRet' = VoidRet
    /\ UNCHANGED <<parVars, valVars, regVars, nextId, liveDefs, exited, lexVars, mainVars>>

ExitScope ==
    /\ scopes' = exitScope(scopes)
    /\ lastOp' = [op |-> "exitScope"]
    /\ lastRet' = VoidRet
    /\ liveDefs' = {d \in liveDefs : d.depth <= Len(scopes')}
    /\ exited' = IF Len(scopes') < Len(scopes)
                 THEN exited \cup IdsOf(scopes[Len(scopes)])
                 ELSE exited
    /\ UNCHANGED <<parVars, valVars, regVars, nextId, lexVars, mainVars>>

DefineVariable ==
    /\ nextId <= MaxSyms
    /\ \E n \in Names, v \in Values, m \in BOOLEAN :
        /\ scopes' = defineVariable(scopes, n, v, m, nextId)
        /\ liveDefs' = liveDefs \cup {[id |-> nextId, name |-> n, depth |-> Len(scopes)]}
        /\ lastOp' = [op |-> "defineVariable", name |-> n, value |-> v, isMutable |-> m]
    /\ nextId' = nextId + 1
    /\ lastRet' = VoidRet
    /\ UNCHANGED <<parVars, valVars, regVars, exited, lexVars, mainVars>>

UpdateVariable ==
    /\ \E n \in Names, v \in Values :
        LET r == updateVariable(scopes, n, v)
        IN  /\ scopes' = r.chain
            /\ lastRet' = [ret |-> r.ret, thrown |-> r.thrown]
            /\ lastOp' = [op |-> "updateVariable", name |-> n, value |-> v]
    /\ UNCHANGED <<parVars, valVars, regVars, nextId, liveDefs, exited, lexVars, mainVars>>

SymNext == EnterScope \/ ExitScope \/ DefineVariable \/ UpdateVariable

SpecSym == SymInit /\ [][SymNext]_vars

(***************************************************************************)
(* The lexer run on its own, one loop iteration a step, over every text of *)
(* up to MaxSrcLen characters of LexAlphabet.                              *)
(***************************************************************************)
LexAlphabet == {"a", " ", "\n", "\"", "/", "=", ">", "+", "-", "$"}

RECURSIVE Texts(_)
Texts(n) ==
    IF n = 0 THEN {""}
    ELSE LET S == Texts(n - 1)
         IN  S \cup {s \o c : s \in {t \in S : Len(t) = n - 1}, c \in LexAlphabet}

LexInit ==
    /\ \E source \in Texts(MaxSrcLen) : lexer = NewLexer(source)
    /\ tokens = <<>>
    /\ lexPc = "loop"
    /\ SymIdle
    /\ MainIdle
    /\ RegIdle

\* One iteration of the while loop of tokenize
LexLoopStep ==
    /\ lexPc = "loop"
    /\ ~isAtEnd(lexer)
    /\ LET r == LoopBody(lexer, tokens)
       IN  /\ lexer' = r.L
           /\ tokens' = r.tokens
    /\ UNCHANGED <<parVars, valVars, regVars, lexPc, symVars, mainVars>>

\* The loop condition fails: tokenize pushes EndOfFile and returns
LexReturn ==
    /\ lexPc = "loop"
    /\ isAtEnd(lexer)
    /\ tokens' = PushEndOfFile(lexer, tokens)
    /\ lexPc' = "done"
    /\ UNCHANGED <<parVars, valVars, regVars, lexer, symVars, mainVars>>

LexNext == LexLoopStep \/ LexReturn

SpecLex == LexInit /\ [][LexNext]_vars

(***************************************************************************)
(* main (unnamed/part_000) run on a program text: one step a stage.  The   *)
(* texts are a block header, up to MaxSections sections and a block end.   *)
(***************************************************************************)
Header == "#START_BLOCK(1);\n"

DataSection == "DATA [vars[1]{ Let x = 10; Let y = 5; };]\n"
SystemCallSection == "SYSTEM_CALL [{ Say \"Hello world\"; };]\n"
LoopSection ==
    "OPERATION [Create_operation(loop)[2]{ Let x = 10; Let y = 5; While => y => y--; };]\n"
FunctionSection ==
    "FUNCTION [create_function(show)[3]{ Let m = \"on\"; If => {m} => Say m Else => Say \"off\"; Run operation[2]; };]\n"
SectionTexts == {DataSection, SystemCallSection, LoopSection, FunctionSection}

ExecuteShow == "#EXECUTE_BLOCK(1) => *show program output in @terminal;\n#END_BLOCK;\n"
ExecutePlain == "#EXECUTE_BLOCK(1) => ;\n#END_BLOCK;\n"
EndOnly == "#END_BLOCK;\n"
Truncated == "DATA ["
BlockEnds == {ExecuteShow, ExecutePlain, EndOnly, Truncated}

\* The concatenations of up to n section texts
RECURSIVE Bodies(_)
Bodies(n) ==
    IF n = 0 THEN {""}
    ELSE Bodies(n - 1) \cup {b \o t : b \in Bodies(n - 1), t \in SectionTexts}

\* The example program of docs/prompt.md, lines 28-67
DocExample ==
       "#START_BLOCK(1001);\n"
    \o "\n"
    \o "DATA [add_data[12] {\n"
    \o "    Let x = 10;\n"
    \o "    Let y = 5;\n"
    \o "};]\n"
    \o "// No explicit data types\n"
    \o "// Strings by default\n"
    \o "// Numbers as float by default\n"
    \o "// // is the comment syntax\n"
    \o "\n"
    \o "OPERATION [Create_operation(myOp)[23] {\n"
    \o "    NOW {y = 5};\n"
    \o "    DO {y++};\n"
    \o "    Until {y = x};\n"
    \o "};]\n"
    \o "// myOp is developer-chosen name\n"
    \o "\n"
    \o "FUNCTION [create_function(myFunc)[45] {\n"
    \o "    Run operation[23];\n"
    \o "    While => y=7 => Say \"the operation is running and at this time the y values is 7\"\n"
    \o "    If => {y = x}\n"
    \o "    Else => Say \"nothing to do\";\n"
    \o "};]\n"
    \o "// myFunc is developer-chosen name\n"
    \o "\n"
    \o "SYSTEM_CALL [{\n"
    \o "    Say \"Hello world\";\n"
    \o "    open \"C:/output.txt\";\n"
    \o "    Read \"C:/output.txt\";\n"
    \o "    Write \"hi\" in_file \"C:/output.txt\" at_Location \"the location where need to write\";\n"
    \o "    DO;\n"
    \o "};]\n"
    \o "\n"
    \o "#EXECUTE_BLOCK(1001) =>\n"
    \o "    *store program output in \"C:/output.txt\"\n"
    \o "    *show program output in @terminal\n"
    \o "    *give program output to BLOCK(2002);\n"
    \o "\n"
    \o "#END_BLOCK;\n"

\* Blocks that do not match the grammar: an Unknown token between two
\* sections, a section keyword that does not exist, a Number where the
\* name of a data section is required
UnknownBetween == Header \o DataSection \o "$\n" \o SystemCallSection \o ExecutePlain
UnknownKeyword == Header \o "BOGUS [{ Say \"Hello world\"; };]\n" \o ExecutePlain
NumberForName == Header \o "DATA [7[1]{ Let x = 10; };]\n" \o ExecutePlain

\* Texts that are run besides the combinations of sections
OtherPrograms == {DocExample, UnknownBetween, UnknownKeyword, NumberForName}

Programs ==
    {Header \o b \o e : b \in Bodies(MaxSections), e \in BlockEnds} \cup OtherPrograms

DefaultPath == "example/MYcode_syntax.nex"

\* The exit statuses of a run whose behaviour is undefined: it returns 0,
\* returns 1 through the catch, or is killed by SIGSEGV.
UndefinedExits == {0, 1, 139}

MainInit ==
    /\ SymIdle
    /\ LexIdle
    /\ RegIdle
    /\ pc = "start"
    /\ \E text \in Programs, openable \in BOOLEAN :
        file = [path |-> DefaultPath, openable |-> openable, content |-> text]
    /\ program = NoNode
    /\ symbolTable = <<>>
    /\ execProgram = NoNode
    /\ ctx = NewExecutionContext
    /\ executed = <<>>
    /\ cout = <<>>
    /\ cerr = <<>>
    /\ exitCode = NoExit

\* e.what()
What(e) ==
    CASE e.what = "Parse error near token" ->
            "Parse error near token '" \o e.lexeme \o "' at line " \o IntToString(e.line)
      [] e.what = "Unknown section" -> "Unknown section: " \o e.lexeme
      [] e.what = "Unknown statement near" -> "Unknown statement near: " \o e.lexeme
      [] OTHER -> e.what

\* The name main prints for a token type
TypeName(type) ==
    CASE type = "Keyword" -> "KEYWORD" [] type = "Identifier" -> "IDENT"
      [] type = "Number" -> "NUMBER" [] type = "String" -> "STRING"
      [] type = "Symbol" -> "SYMBOL" [] type = "Operator" -> "OP"
      [] type = "Comment" -> "COMMENT" [] type = "EndOfFile" -> "EOF"
      [] OTHER -> "UNKNOWN"

\* The lines of the token dump
TokenDump(toks) ==
    [i \in 1..Len(toks) |->
        "  " \o IntToString(i - 1) \o ": " \o TypeName(toks[i].type) \o " '"
        \o toks[i].lexeme \o "' at " \o IntToString(toks[i].line) \o ":"
        \o IntToString(toks[i].column)]

\* The catch block of main: the message and return 1
Caught(e) ==
    /\ cerr' = Append(cerr, "Error during compilation: " \o What(e))
    /\ exitCode' = 1
    /\ pc' = "exit"

\* The file does not open: return 1 before any stage
MainOpenFails ==
    /\ pc = "start"
    /\ ~file.openable
    /\ cerr' = Append(cerr, "Error: Could not open file '" \o file.path \o "'")
    /\ exitCode' = 1
    /\ pc' = "exit"
    /\ UNCHANGED <<parVars, valVars, regVars, symVars, lexVars, executed, file, program, symbolTable, execProgram, ctx, cout>>

\* The file is read and the banner printed
MainReadSource ==
    /\ pc = "start"
    /\ file.openable
    /\ cout' = cout \o <<"=== NexLang Compiler ===", "Parsing file: " \o file.path>>
    /\ pc' = "lex"
    /\ UNCHANGED <<parVars, valVars, regVars, symVars, lexVars, executed, file, program, symbolTable, execProgram, ctx, cerr,
                   exitCode>>

\* 1. Lexical analysis: tokenize never throws
MainLex ==
    /\ pc = "lex"
    /\ \E r \in {tokenize(file.content)} :
           /\ lexer' = r.L
           /\ tokens' = r.tokens
           /\ cout' = cout \o <<"", "--- LEXICAL ANALYSIS ---",
                                "Tokens generated: " \o IntToString(Len(r.tokens))>>
                          \o TokenDump(r.tokens)
    /\ lexPc' = "done"
    /\ pc' = "parse"
    /\ UNCHANGED <<parVars, valVars, regVars, symVars, executed, file, program, symbolTable, execProgram, ctx, cerr, exitCode>>

\* 2. Parsing
MainParse ==
    /\ pc = "parse"
    /\ \E r \in {Parse(tokens)} :
           /\ r.status # "ub"
           /\ IF r.status = "ok"
              THEN /\ program' = r.program
                   /\ cout' = cout \o <<"", "--- SYNTAX ANALYSIS ---",
                                        "Abstract Syntax Tree generated successfully!">>
                   /\ pc' = "analyze"
                   /\ UNCHANGED <<cerr, exitCode>>
              ELSE /\ Caught(r.error)
                   /\ cout' = cout \o <<"", "--- SYNTAX ANALYSIS ---">>
                   /\ UNCHANGED program
    /\ UNCHANGED <<parVars, valVars, regVars, symVars, lexVars, executed, file, symbolTable, execProgram, ctx>>

\* A parse that reads tokens_[pos_] out of range: the behaviour is undefined
MainParseUndefined ==
    /\ pc \in {"parse", "reparse"}
    /\ Parse(tokens).status = "ub"
    /\ pc' = "undefined"
    /\ exitCode' \in UndefinedExits
    /\ UNCHANGED <<parVars, valVars, regVars, symVars, lexVars, executed, file, program, symbolTable, execProgram, ctx, cout,
                   cerr>>

\* 3. Semantic analysis on a fresh SymbolTable
MainAnalyze ==
    /\ pc = "analyze"
    /\ symbolTable' = analyze(NewAnalyzer(NewSymbolTable), program).chain
    /\ cout' = cout \o <<"", "--- SEMANTIC ANALYSIS ---", "Semantic analysis completed!">>
    /\ pc' = "reparse"
    /\ UNCHANGED <<parVars, valVars, regVars, symVars, lexVars, executed, file, program, execProgram, ctx, cerr, exitCode>>

\* The second parse of the same tokens
MainReparse ==
    /\ pc = "reparse"
    /\ \E r \in {Parse(tokens)} :
           /\ r.status # "ub"
           /\ IF r.status = "ok"
              THEN /\ execProgram' = r.program
                   /\ pc' = "execute"
                   /\ UNCHANGED <<cerr, exitCode>>
              ELSE /\ Caught(r.error)
                   /\ UNCHANGED execProgram
    /\ UNCHANGED <<parVars, valVars, regVars, symVars, lexVars, executed, file, program, symbolTable, ctx, cout>>

\* 4. Execution, then return 0
MainExecute ==
    /\ pc = "execute"
    /\ \E E \in {executeProgram(execProgram)} :
           /\ ctx' = E
           /\ cout' = cout \o <<"", "--- EXECUTION ---">> \o E.out
                          \o <<"Program execution completed!", "",
                               "=== Compilation Successful ===">>
    /\ exitCode' = 0
    /\ pc' = "exit"
    /\ UNCHANGED <<parVars, valVars, regVars, symVars, lexVars, executed, file, program, symbolTable, execProgram, cerr>>

MainNext ==
    \/ MainOpenFails
    \/ MainReadSource
    \/ MainLex
    \/ MainParse
    \/ MainParseUndefined
    \/ MainAnalyze
    \/ MainReparse
    \/ MainExecute

SpecMain == MainInit /\ [][MainNext]_vars

(***************************************************************************)
(* The block engine (engine/block_engine.h) run step by step on one        *)
(* ExecutionContext: a step is one iteration of the loop of a block        *)
(* executor over its statements, or an OPERATION or FUNCTION section       *)
(* executed whole.                                                         *)
(***************************************************************************)
EngineStatements ==
    {LetStmt("x", "5"), LetStmt("x", "0"), LetStmt("m", "on"), LetStmt("Say", "5"),
     SayStmt("x"), SayStmt("m"), SayStmt("hi"), SayStmt("Say"),
     IncrementStmt("x", TRUE), IncrementStmt("x", FALSE),
     AssignmentStmt("x", "7"), AssignmentStmt("z", "7"),
     RunOperationStmt(2),
     NowStmt(<<LetStmt("n", "1")>>),
     DoStmt(<<SayStmt("tick")>>), UntilStmt("x"),
     WhileStmt("x", <<SayStmt("x")>>),
     IfStmt("x", <<SayStmt("yes")>>, <<SayStmt("no")>>)}

EngineBodies ==
    {<<LetStmt("t", "1")>>, <<SayStmt("in op")>>, <<LetStmt("t", "1"), SayStmt("t")>>}

EngineInit == SymIdle /\ LexIdle /\ MainIdle /\ RegIdle

\* for (auto& stmt : ...) executeStatement(ctx, stmt.get()): one iteration
EngineStatement ==
    /\ Len(executed) < MaxSteps
    /\ \E stmt \in EngineStatements :
           /\ ctx' = executeStatement(ctx, stmt)
           /\ executed' = Append(executed, stmt)
    /\ UNCHANGED <<parVars, valVars, regVars, symVars, lexVars, pc, file, program, symbolTable, execProgram, cout,
                   cerr, exitCode>>

\* executeProgram: an OPERATION section of the program
EngineOperationBlock ==
    /\ Len(executed) < MaxSteps
    /\ \E body \in EngineBodies :
           /\ ctx' = executeOperationBlock(ctx, OperationBlock("op", 2, body))
           /\ executed' = Append(executed, OperationBlock("op", 2, body))
    /\ UNCHANGED <<parVars, valVars, regVars, symVars, lexVars, pc, file, program, symbolTable, execProgram, cout,
                   cerr, exitCode>>

\* executeProgram: a FUNCTION section of the program
EngineFunctionBlock ==
    /\ Len(executed) < MaxSteps
    /\ \E body \in EngineBodies :
           /\ ctx' = executeFunctionBlock(ctx, FunctionBlock("fn", 3, body))
           /\ executed' = Append(executed, FunctionBlock("fn", 3, body))
    /\ UNCHANGED <<parVars, valVars, regVars, symVars, lexVars, pc, file, program, symbolTable, execProgram, cout,
                   cerr, exitCode>>

EngineNext == EngineStatement \/ EngineOperationBlock \/ EngineFunctionBlock

SpecEngine == EngineInit /\ [][EngineNext]_vars

(***************************************************************************)
(* The BuiltinsRegistry singleton under the calls of its clients: they     *)
(* register builtins, look names up, and call the implementation of a      *)
(* Builtin that getBuiltin returned.                                       *)
(***************************************************************************)
ArgValues == {FloatValue(One), StringValue("a")}
ArgLists == UNION {[1..n -> ArgValues] : n \in 0..MaxArgs}

\* The names the clients use: those of initializeBuiltins and one more
RegistryNames == DOMAIN initializeBuiltins \cup {"Twice"}

RegistryInit == SymIdle /\ LexIdle /\ MainIdle /\ RegIdle

\* A call on the registry and its outcome
Invoked(op, name, args, result) ==
    [op |-> op, name |-> name, args |-> args, ret |-> result.ret, out |-> result.out,
     thrown |-> result.thrown]

\* registerBuiltin(name, kind, argCount, implementation)
RegisterBuiltin ==
    /\ \E name \in {"Add", "Twice"}, argCount \in {-1, 1} :
           /\ builtins_' = registerBuiltin(builtins_, name, "MATH_OP", argCount, "Add")
           /\ invoked' = Invoked("registerBuiltin", name, <<>>, Returns(Null, <<>>))
    /\ UNCHANGED <<parVars, valVars, symVars, lexVars, mainVars>>

\* getBuiltin(name)
GetBuiltin ==
    /\ \E name \in RegistryNames :
           invoked' = Invoked("getBuiltin", name, <<>>,
                              Returns(getBuiltin(builtins_, name), <<>>))
    /\ UNCHANGED <<parVars, valVars, builtins_, symVars, lexVars, mainVars>>

\* isBuiltin(name)
IsBuiltin ==
    /\ \E name \in RegistryNames :
           invoked' = Invoked("isBuiltin", name, <<>>,
                              Returns(BoolValue(isBuiltin(builtins_, name)), <<>>))
    /\ UNCHANGED <<parVars, valVars, builtins_, symVars, lexVars, mainVars>>

\* getBuiltin(name)->implementation(args) on a name that is registered
CallImplementation ==
    /\ \E name \in DOMAIN builtins_, args \in ArgLists :
           invoked' = Invoked("implementation", name, args,
                              Implementation(getBuiltin(builtins_, name).implementation,
                                             args))
    /\ UNCHANGED <<parVars, valVars, builtins_, symVars, lexVars, mainVars>>

RegistryNext == RegisterBuiltin \/ GetBuiltin \/ IsBuiltin \/ CallImplementation

SpecRegistry == RegistryInit /\ [][RegistryNext]_vars

(***************************************************************************)
(* The operators of Value (runtime/value.h) applied to two Values, and the *)
(* Divide builtin applied to the same two.                                 *)
(***************************************************************************)
ValueInputs ==
    {FloatValue(0), FloatValue(2), FloatValue(Epsilon - 1), FloatValue(Epsilon),
     FloatValue(0 - Epsilon), FloatValue(One), FloatValue(One + 2),
     BoolValue(TRUE), BoolValue(FALSE), StringValue("a"), StringValue("1")}

ValueInit == SymIdle /\ LexIdle /\ MainIdle /\ RegIdle

\* An operator applied to a and b and its outcome
Applied(op, a, b, result) ==
    [op |-> op, left |-> a, right |-> b, ret |-> result.ret, thrown |-> result.thrown]

\* a / b
ValueOver ==
    /\ \E a \in ValueInputs, b \in ValueInputs : applied' = Applied("/", a, b, Over(a, b))
    /\ UNCHANGED <<parVars, regVars, symVars, lexVars, mainVars>>

\* The lambda of the Divide builtin called with a and b
ValueDivide ==
    /\ \E a \in ValueInputs, b \in ValueInputs :
           applied' = Applied("Divide", a, b, Implementation("Divide", <<a, b>>))
    /\ UNCHANGED <<parVars, regVars, symVars, lexVars, mainVars>>

\* a == b
ValueEquals ==
    /\ \E a \in ValueInputs, b \in ValueInputs :
           applied' = Applied("==", a, b, Returns(Equals(a, b), <<>>))
    /\ UNCHANGED <<parVars, regVars, symVars, lexVars, mainVars>>

\* a != b
ValueNotEquals ==
    /\ \E a \in ValueInputs, b \in ValueInputs :
           applied' = Applied("!=", a, b, Returns(NotEquals(a, b), <<>>))
    /\ UNCHANGED <<parVars, regVars, symVars, lexVars, mainVars>>

\* a < b
ValueLess ==
    /\ \E a \in ValueInputs, b \in ValueInputs :
           applied' = Applied("<", a, b, Returns(Less(a, b), <<>>))
    /\ UNCHANGED <<parVars, regVars, symVars, lexVars, mainVars>>

\* a <= b
ValueLessEq ==
    /\ \E a \in ValueInputs, b \in ValueInputs :
           applied' = Applied("<=", a, b, Returns(LessEq(a, b), <<>>))
    /\ UNCHANGED <<parVars, regVars, symVars, lexVars, mainVars>>

\* a > b
ValueGreater ==
    /\ \E a \in ValueInputs, b \in ValueInputs :
           applied' = Applied(">", a, b, Returns(Greater(a, b), <<>>))
    /\ UNCHANGED <<parVars, regVars, symVars, lexVars, mainVars>>

\* a >= b
ValueGreaterEq ==
    /\ \E a \in ValueInputs, b \in ValueInputs :
           applied' = Applied(">=", a, b, Returns(GreaterEq(a, b), <<>>))
    /\ UNCHANGED <<parVars, regVars, symVars, lexVars, mainVars>>

ValueNext ==
    \/ ValueOver
    \/ ValueDivide
    \/ ValueEquals
    \/ ValueNotEquals
    \/ ValueLess
    \/ ValueLessEq
    \/ ValueGreater
    \/ ValueGreaterEq

SpecValue == ValueInit /\ [][ValueNext]_vars

(***************************************************************************)
(* The Parser on its own: parseStatement, parseStatementWithoutSemicolon   *)
(* and parseProgram on the tokens of a text, whole or cut short.           *)
(***************************************************************************)
\* Statements of every kind, written without the closing semicolon, and
\* texts that are no statement
StatementTexts ==
    {"Let x = 10", "Let m = \"on\"", "Say x", "Say \"hi\"", "Run operation[2]",
     "If => {x} => Say x", "If => {y = x} => Say x Else => Say y", "While => y => y--",
     "open \"f\"", "Read \"f\"", "Write \"a\" in_file \"f\" at_Location \"b\"",
     "NOW {y = 5}", "DO {y++}", "DO", "Until {y = x}",
     "x = 7", "y = x", "x++", "x--", "Let", "Let x", "Say", "x", "7", ""}

\* The texts the statement parsers are run on: with and without the semicolon
StatementInputs == StatementTexts \cup {t \o ";" : t \in StatementTexts}

\* A comment line
CommentLine == "// note\n"

\* A block in pieces: between two pieces a comment can be put
Pieces ==
    <<Header, "DATA [vars[1]{ Let x = 10; ", "Let y = 5; };]\n", SystemCallSection,
      "#EXECUTE_BLOCK(1) => ;\n", "#END_BLOCK;\n">>

\* The pieces from i on, with a comment line after piece k (k = 0: none)
RECURSIVE JoinPieces(_, _)
JoinPieces(i, k) ==
    IF i > Len(Pieces) THEN ""
    ELSE Pieces[i] \o (IF i = k THEN CommentLine ELSE "") \o JoinPieces(i + 1, k)

\* The block without a comment, and with one comment after the header,
\* between the two statements of the data section, between the two sections
\* and between the last section and #EXECUTE_BLOCK
Commented(k) == JoinPieces(1, k)
CommentPlaces == 1..4

\* A block that ends with #END_BLOCK and no #EXECUTE_BLOCK, plain and with a
\* comment before #END_BLOCK
EndBlockPlain == Header \o DataSection \o EndOnly
EndBlockCommented == Header \o DataSection \o CommentLine \o EndOnly

ParseTexts ==
    {Commented(k) : k \in {0} \cup CommentPlaces}
        \cup {EndBlockPlain, EndBlockCommented,
              Header \o FunctionSection \o LoopSection \o ExecutePlain}

\* The first k tokens of toks followed by the EndOfFile token that ends toks
CutShort(toks, k) == SubSeq(toks, 1, k) \o <<toks[Len(toks)]>>

ParseInit == SymIdle /\ LexIdle /\ MainIdle /\ RegIdle

\* A Parser is constructed on its tokens and called once.
\* A parse of the tokens toks of the text source and how it ended
Parsed(op, source, toks, P, node) ==
    [op |-> op, source |-> source, tokens |-> toks, status |-> P.status,
     error |-> P.error, pos_ |-> P.pos_, node |-> IF P.status = "ok" THEN node ELSE NoNode]

\* Parser(tokens).parseStatement()
ParseStatement ==
    /\ parsed = NoInvoke
    /\ \E source \in StatementInputs :
         \E toks \in {tokenize(source).tokens} :
           \E r \in {parseStatement(NewParser(toks))} :
               parsed' = Parsed("parseStatement", source, toks, r.P, r.node)
    /\ UNCHANGED <<valVars, regVars, symVars, lexVars, mainVars>>

\* Parser(tokens).parseStatementWithoutSemicolon()
ParseStatementWithoutSemicolon ==
    /\ parsed = NoInvoke
    /\ \E source \in StatementInputs :
         \E toks \in {tokenize(source).tokens} :
           \E r \in {parseStatementWithoutSemicolon(NewParser(toks))} :
               parsed' = Parsed("parseStatementWithoutSemicolon", source, toks, r.P, r.node)
    /\ UNCHANGED <<valVars, regVars, symVars, lexVars, mainVars>>

\* Parser(tokens).parseProgram() on the tokens of a text, whole or cut short
ParseProgram ==
    /\ parsed = NoInvoke
    /\ \E source \in ParseTexts :
         \E whole \in {tokenize(source).tokens} :
           \E k \in 0..(Len(whole) - 1) :
             \E toks \in {CutShort(whole, k)} :
               \E r \in {parseProgram(NewParser(toks))} :
                   parsed' = Parsed("parseProgram", source, toks, r.P, r.node)
    /\ UNCHANGED <<valVars, regVars, symVars, lexVars, mainVars>>

ParseNext ==
    \/ ParseStatement
    \/ ParseStatementWithoutSemicolon
    \/ ParseProgram

SpecParse == ParseInit /\ [][ParseNext]_vars

(***************************************************************************)
(* Properties of the symbol table.                                         *)
(***************************************************************************)
\* The identity of the symbol lookup returns, -1 for nullptr.
LookupId(chain, name) ==
    LET sym == lookup(chain, name) IN IF sym = Null THEN -1 ELSE sym.id

\* A live definition d is hidden when its name was defined again later, in
\* the same scope or in a scope nested inside it that is still open.
Hidden(d) ==
    \E e \in liveDefs : e.name = d.name /\ e.id > d.id /\ e.depth >= d.depth

\* No symbol of an exited scope is returned by lookup.
ExitedInvisible ==
    \A n \in Names : \A e \in exited : LookupId(scopes, n) # e.id

\* C1 as stated: every variable defined in a scope S that has not been
\* exited is what lookup of its name returns from the current scope (S or a
\* scope nested inside S), and no variable of an exited scope is returned.
C1_VisibleUntilExit_AsStated ==
    /\ \A d \in liveDefs : LookupId(scopes, d.name) = d.id
    /\ ExitedInvisible

\* C1 amended: a variable defined in a scope S that has not been exited is
\* what lookup of its name returns from S and from every scope nested inside
\* S, unless the name has since been defined again in S or in a still open
\* scope nested inside S; a variable of an exited scope is never returned.
C1_VisibleUntilExit ==
    /\ \A d \in liveDefs : ~Hidden(d) => LookupId(scopes, d.name) = d.id
    /\ ExitedInvisible

\* C1 witness: a variable of an outer scope is seen from a nested scope
\* after a sibling scope holding a variable has been exited.
C1_Witness ==
    /\ exited # {}
    /\ \E d \in liveDefs :
        /\ d.depth < Len(scopes)
        /\ ~Hidden(d)
        /\ LookupId(scopes, d.name) = d.id

\* The step is a call of updateVariable.
IsUpdate == lastOp'.op = "updateVariable"

\* C2: updateVariable on a name no scope of the chain binds returns false
\* and leaves every scope as it was.
C2_UpdateMissingFails ==
    [][(IsUpdate /\ lookup(scopes, lastOp'.name) = Null)
        => (lastRet'.ret = FALSE /\ scopes' = scopes)]_vars

\* C2 witness: updateVariable has been called on an unbound name while the
\* chain holds a nested scope and a defined variable.
C2_Witness ==
    /\ lastOp.op = "updateVariable"
    /\ lookup(scopes, lastOp.name) = Null
    /\ lastRet.ret = FALSE
    /\ Len(scopes) > 1
    /\ liveDefs # {}

\* C5: enterScope appends an empty scope above the previous current scope,
\* exitScope pops to the parent and changes nothing at the root, the chain
\* is never empty, and exitScope right after enterScope restores the chain.
C5_ScopeStack ==
    [][/\ lastOp'.op = "enterScope" =>
            /\ Len(scopes') = Len(scopes) + 1
            /\ scopes'[Len(scopes')] = EmptyScope
            /\ SubSeq(scopes', 1, Len(scopes)) = scopes
            /\ exitScope(scopes') = scopes
       /\ lastOp'.op = "exitScope" =>
            IF Len(scopes) = 1
            THEN scopes' = scopes
            ELSE scopes' = SubSeq(scopes, 1, Len(scopes) - 1)
       /\ Len(scopes') >= 1]_vars

\* C5 witness: exitScope has returned with the root as current scope, the
\* root still holding its builtins and a variable defined earlier.
C5_Witness ==
    /\ lastOp.op = "exitScope"
    /\ Len(scopes) = 1
    /\ "Say" \in DOMAIN scopes[1]
    /\ \E d \in liveDefs : d.depth = 1

\* The scopes of the chain that bind a name.
Binders(chain, name) == {i \in 1..Len(chain) : name \in DOMAIN chain[i]}

Max(S) == CHOOSE m \in S : \A k \in S : k <= m

\* lookup returns the binding of the innermost scope that binds the name.
InnermostWins ==
    \A n \in Names :
        lookup(scopes, n) = IF Binders(scopes, n) = {} THEN Null
                            ELSE scopes[Max(Binders(scopes, n))][n]

\* C6: lookup returns the innermost binding; a define changes the binding
\* of its name in the current scope and nothing else, in no outer scope;
\* after exitScope lookup returns what the parent chain bound.
C6_Shadowing ==
    /\ []InnermostWins
    /\ [][/\ lastOp'.op = "defineVariable" =>
                /\ Len(scopes') = Len(scopes)
                /\ \A i \in 1..(Len(scopes) - 1) : scopes'[i] = scopes[i]
                /\ \A n \in DOMAIN scopes[Len(scopes)] :
                      n # lastOp'.name =>
                          scopes'[Len(scopes)][n] = scopes[Len(scopes)][n]
                /\ lookup(scopes', lastOp'.name).value = lastOp'.value
          /\ (lastOp'.op = "exitScope" /\ Len(scopes) > 1) =>
                \A n \in Names :
                    lookup(scopes', n) =
                        lookup(SubSeq(scopes, 1, Len(scopes) - 1), n)]_vars

\* C6 witness: a name shadowed in an inner scope resolves to its outer
\* binding again after the inner scope was exited.
C6_Witness ==
    /\ lastOp.op = "exitScope"
    /\ \E d \in liveDefs : \E e \in exited :
        /\ e.name = d.name
        /\ e.id > d.id
        /\ LookupId(scopes, d.name) = d.id

\* The nearest binding of the name of an updateVariable step is a variable
\* defined as immutable.
UpdatesImmutable ==
    /\ IsUpdate
    /\ LET sym == lookup(scopes, lastOp'.name)
       IN  sym # Null /\ sym.type = "VARIABLE" /\ ~sym.isMutable

\* What updateVariable gives for a name that is not found.
PlainFailure == [ret |-> FALSE, thrown |-> "none"]

\* C7: updateVariable on an immutable variable changes nothing and reports
\* a MutationError, an outcome other than the plain failure.
C7_ImmutableReported ==
    [][UpdatesImmutable =>
        /\ scopes' = scopes
        /\ lastRet'.thrown = "MutationError"
        /\ lastRet' # PlainFailure]_vars

\* The nearest binding of the name of an updateVariable step is a mutable
\* variable of an enclosing scope.
UpdatesOuterMutable ==
    /\ IsUpdate
    /\ LET i == LookupIndex(scopes, Len(scopes), lastOp'.name)
       IN  /\ 0 < i
           /\ i < Len(scopes)
           /\ scopes[i][lastOp'.name].type = "VARIABLE"
           /\ scopes[i][lastOp'.name].isMutable

\* C8: updateVariable on a mutable variable of an enclosing scope succeeds,
\* binds no name in any scope, and lookup returns the new value from the
\* current scope and after the inner scopes are exited.
C8_UpdateInPlace ==
    [][UpdatesOuterMutable =>
        LET n == lastOp'.name
            i == LookupIndex(scopes, Len(scopes), n)
        IN  /\ lastRet'.ret = TRUE
            /\ Len(scopes') = Len(scopes)
            /\ \A k \in 1..Len(scopes) : DOMAIN scopes'[k] = DOMAIN scopes[k]
            /\ lookup(scopes', n).value = lastOp'.value
            /\ lookup(scopes', n).id = scopes[i][n].id
            /\ lookup(exitScope(scopes'), n).value = lastOp'.value
            /\ lookup(SubSeq(scopes', 1, i), n).value = lastOp'.value]_vars

\* C8 witness: updateVariable has succeeded on a variable bound in an outer
\* scope, and the variable holds the value passed.
C8_Witness ==
    /\ lastOp.op = "updateVariable"
    /\ lastRet.ret = TRUE
    /\ LET i == LookupIndex(scopes, Len(scopes), lastOp.name)
       IN  /\ 0 < i
           /\ i < Len(scopes)
           /\ scopes[i][lastOp.name].value = lastOp.value

(***************************************************************************)
(* Properties of the lexer.                                                *)
(***************************************************************************)
\* The step is one iteration of the while loop of tokenize.
IsLoopIteration == lexPc = "loop" /\ lexPc' = "loop"

\* The positions of the EndOfFile tokens of a token sequence.
EndOfFileAt(toks) == {i \in 1..Len(toks) : toks[i].type = "EndOfFile"}

\* A character no rule of the lexer recognizes: not white space, not a
\* quote, digit, letter, underscore or hash, no operator and no symbol.
Unrecognized(c) ==
    /\ c # NUL
    /\ ~isspace(c)
    /\ c # "\""
    /\ ~isalnum(c)
    /\ c \notin {"_", "#"}
    /\ c \notin {"=", "+", "-", "*", "/", "%"}
    /\ c \notin {"(", ")", "{", "}", "[", "]", ";", ",", "@", "."}

\* tokenize never reads outside the text, holds no EndOfFile token while
\* it loops and returns, at the end of the text, a sequence whose only
\* EndOfFile token is the last one.
TokenizeSafe ==
    /\ ~lexer.oob
    /\ lexer.pos_ <= Len(lexer.src_)
    /\ lexPc \in {"loop", "done"}
    /\ lexPc = "loop" => EndOfFileAt(tokens) = {}
    /\ lexPc = "done" => (isAtEnd(lexer) /\ tokens # <<>>
                           /\ EndOfFileAt(tokens) = {Len(tokens)})

\* C9: tokenize is total.  It raises no error and reads nothing outside
\* the text, every iteration of its loop consumes at least one character
\* of a finite text (so it returns), the sequence returned ends with the
\* only EndOfFile token, and an unrecognized character at the head of an
\* iteration becomes one Unknown token holding that character.
C9_TokenizeTotal ==
    /\ TokenizeSafe
    /\ [][/\ TokenizeSafe'
          /\ IsLoopIteration =>
                /\ lexer'.pos_ > lexer.pos_
                /\ lexer'.pos_ <= Len(lexer.src_)
                /\ Len(tokens') <= Len(tokens) + 1
                /\ LET L1 == skipWhitespace(lexer)
                       c == lexPeek(L1)
                   IN  Unrecognized(c) =>
                         /\ tokens' = Append(tokens, makeToken("Unknown", c, L1.line_, L1.col_))
                         /\ lexer'.pos_ = L1.pos_ + 1]_vars

\* The tokens of a sequence that are Unknown with the given lexeme.
UnknownAt(toks, lex) ==
    {i \in 1..Len(toks) : toks[i].type = "Unknown" /\ toks[i].lexeme = lex}

\* C9 witness: tokenize has returned from a text with an unrecognized
\* character that ends inside a string.
C9_Witness ==
    /\ lexPc = "done"
    /\ UnknownAt(tokens, "$") # {}
    /\ UnknownAt(tokens, "a") # {}

TwoCharOperators == {"=>", "==", "++", "--"}

\* The two characters at the lexer's position, "" when fewer are left.
TwoAt(L) ==
    IF L.pos_ + 2 <= Len(L.src_) THEN SubSeq(L.src_, L.pos_ + 1, L.pos_ + 2) ELSE ""

\* C10: where the text at the head of a loop iteration begins with one of
\* =>, ==, ++, -- the iteration pushes that operator as one Operator token;
\* a one-character Operator token is pushed only where none of them begins.
C10_LongestOperator ==
    [][IsLoopIteration =>
        LET L1 == skipWhitespace(lexer)
            two == TwoAt(L1)
        IN  /\ two \in TwoCharOperators =>
                 /\ tokens' = Append(tokens, makeToken("Operator", two, L1.line_, L1.col_))
                 /\ lexer'.pos_ = L1.pos_ + 2
            /\ (/\ Len(tokens') = Len(tokens) + 1
                /\ tokens'[Len(tokens')].type = "Operator"
                /\ Len(tokens'[Len(tokens')].lexeme) = 1)
               => two \notin TwoCharOperators]_vars

\* C10 witness: a returned sequence holds the Operator => followed by a
\* one-character Operator.
C10_Witness ==
    /\ lexPc = "done"
    /\ \E i \in 1..(Len(tokens) - 1) :
        /\ tokens[i].type = "Operator" /\ tokens[i].lexeme = "=>"
        /\ tokens[i + 1].type = "Operator" /\ Len(tokens[i + 1].lexeme) = 1

(***************************************************************************)
(* Properties of the engine and of the driver.                             *)
(***************************************************************************)
\* The program of C3 in an operation section of a block that parses
LoopProgram == Header \o LoopSection \o ExecutePlain

\* The value the engine's symbol table binds to a name when the run ended
FinalValue(name) == lookup(ctx.chain, name).value

\* main returned 0 after executing the given text.
Executed(text) == file.content = text /\ pc = "exit" /\ exitCode = 0

\* C3 as stated: executing `Let x = 10; Let y = 5; While => y => y--;`
\* runs the While body exactly 5 times and ends with y bound to 0.
C3_WhileRunsToZero ==
    Executed(LoopProgram) =>
        /\ ctx.whileRuns = 5
        /\ FinalValue("y") = FloatValue(0)

\* The program of C4: a DataBlock defining x = 10 and y = 5, a
\* SystemCallBlock with Say "Hello world", an #EXECUTE_BLOCK with the
\* directive *show program output in @terminal
HelloProgram == Header \o DataSection \o SystemCallSection \o ExecuteShow

\* The lines of a stream
Lines(stream) == {stream[i] : i \in 1..Len(stream)}

\* C4 as stated: the full program passes lexing, parsing, analysis and
\* execution without any error, Hello world is written to the output
\* stream and main returns 0.
C4_HelloProgramSucceeds ==
    (file.content = HelloProgram /\ file.openable /\ pc = "exit") =>
        /\ exitCode = 0
        /\ cerr = <<>>
        /\ "Hello world" \in Lines(cout)

\* The block kind a section text declares
KindOf(text) ==
    CASE text = DataSection -> "DataBlock"
      [] text = SystemCallSection -> "SystemCallBlock"
      [] text = LoopSection -> "OperationBlock"
      [] text = FunctionSection -> "FunctionBlock"

\* The sequences of up to MaxSections section texts
SectionSeqs == UNION {[1..n -> SectionTexts] : n \in 0..MaxSections}

\* The concatenation of a sequence of texts
RECURSIVE Join(_)
Join(ts) == IF ts = <<>> THEN "" ELSE Head(ts) \o Join(Tail(ts))

\* main is past its first parse of a file it could open
PastParse == file.openable /\ pc \notin {"start", "lex", "parse"}

\* C11 as stated: a block `#START_BLOCK(1); Section* #END_BLOCK;` with no
\* #EXECUTE_BLOCK directive is accepted by parseProgram, and the
\* ProgramBlock holds exactly its declarative sections, in order.
C11_ExecuteOptional ==
    \A ts \in SectionSeqs :
        (PastParse /\ file.content = Header \o Join(ts) \o EndOnly) =>
            /\ program.kind = "ProgramBlock"
            /\ Len(program.sections) = Len(ts)
            /\ \A i \in 1..Len(ts) : program.sections[i].kind = KindOf(ts[i])


\* The first n characters of a line
Prefix(line, n) == SubSeq(line, 1, n)

\* C12 as stated: the example program of the language document is accepted
\* by the lexer and parseProgram; the ProgramBlock holds the DATA,
\* OPERATION, FUNCTION and SYSTEM_CALL sections and the #EXECUTE_BLOCK
\* statement, whose outputs are the directives *store, *show and *give in
\* source order.
C12_DocExampleAccepted ==
    (PastParse /\ file.content = DocExample) =>
        /\ program.kind = "ProgramBlock"
        /\ [i \in 1..Len(program.sections) |-> program.sections[i].kind]
               = <<"DataBlock", "OperationBlock", "FunctionBlock", "SystemCallBlock",
                   "ExecuteBlockStmt">>
        /\ LET outputs == program.sections[5].outputs
           IN  /\ Len(outputs) = 3
               /\ Prefix(outputs[1], 6) = "*store"
               /\ Prefix(outputs[2], 5) = "*show"
               /\ Prefix(outputs[3], 5) = "*give"


\* The texts that do not match the grammar, each with its offending token
Malformed ==
    {[text |-> UnknownBetween, tok |-> makeToken("Unknown", "$", 3, 1)],
     [text |-> UnknownKeyword, tok |-> makeToken("Identifier", "BOGUS", 2, 1)],
     [text |-> NumberForName, tok |-> makeToken("Number", "7", 2, 7)]}

\* C13 as stated: on a token sequence that does not match the Program
\* grammar the parse fails with a syntax error naming the offending lexeme
\* and line, and no AST is produced.
C13_MismatchIsFatal ==
    \A m \in Malformed :
        (PastParse /\ file.content = m.text) =>
            /\ program = NoNode
            /\ pc = "exit" /\ exitCode = 1
            /\ cerr = <<"Error during compilation: " \o What(ParseError(m.tok))>>


(***************************************************************************)
(* Properties of the engine run step by step.                              *)
(***************************************************************************)
\* The node the engine executes in this step
Running == executed'[Len(executed')]

\* The step executes a node of one of the given kinds
Runs(kinds) == Len(executed') = Len(executed) + 1 /\ Running.kind \in kinds

\* The names some scope of the chain binds
BoundNames(chain) == UNION {DOMAIN chain[i] : i \in 1..Len(chain)}

\* C14 as stated: an Increment statement on a bound variable rebinds it to
\* its float value plus 1 (++) or minus 1 (--), and changes no other
\* binding.
C14_IncrementByOne ==
    [][(Runs({"IncrementStmt"}) /\ lookup(ctx.chain, Running.variable) # Null) =>
          /\ lookup(ctx'.chain, Running.variable).value
                 = FloatValue(toFloat(lookup(ctx.chain, Running.variable).value)
                              + (IF Running.isIncrement THEN One ELSE 0 - One))
          /\ \A name \in BoundNames(ctx.chain) \ {Running.variable} :
                 lookup(ctx'.chain, name) = lookup(ctx.chain, name)]_vars


\* The symbol is a variable that may be rebound
Mutable(symbol) == symbol.type = "VARIABLE" /\ symbol.isMutable

\* C15 as stated: an Assignment statement rebinds a variable that is bound
\* and mutable; on a name that is not bound the run fails with
\* UndefinedVariable, on a binding that is not mutable with MutationError,
\* and a failed assignment creates or changes no binding.
C15_AssignmentRebinds ==
    [][Runs({"AssignmentStmt"}) =>
          LET symbol == lookup(ctx.chain, Running.variable)
          IN  IF symbol = Null
              THEN ctx'.thrown = "UndefinedVariable" /\ ctx'.chain = ctx.chain
              ELSE IF ~Mutable(symbol)
              THEN ctx'.thrown = "MutationError" /\ ctx'.chain = ctx.chain
              ELSE /\ ctx'.thrown = "none"
                   /\ lookup(ctx'.chain, Running.variable).value
                          = LetValue(Running.value)]_vars


\* The names the Let statements of a body bind
LetNames(body) == {body[i].name : i \in {j \in 1..Len(body) : body[j].kind = "LetStmt"}}

\* C16 as stated: the body of an OperationBlock, a FunctionBlock or a NOW
\* statement runs in a child scope that is popped when the body ends: the
\* current scope after the body is the scope before it, and a name bound
\* by a Let of the body resolves after the body as it did before it.
C16_BodyInChildScope ==
    [][Runs({"OperationBlock", "FunctionBlock", "NowStmt"}) =>
          /\ Len(ctx'.chain) = Len(ctx.chain)
          /\ \A name \in LetNames(Running.body) :
                 lookup(ctx'.chain, name) = lookup(ctx.chain, name)]_vars


\* The step executes an Until statement right after a DO statement
UntilAfterDo ==
    /\ Runs({"UntilStmt"})
    /\ executed # <<>>
    /\ executed[Len(executed)].kind = "DoStmt"

\* C17 as stated: a DO statement followed by an Until statement is a
\* do-while loop: when the Until condition is evaluated and is false the
\* preceding DO body is run again, and when it is true the body is not
\* run again.
C17_DoUntilLoops ==
    [][UntilAfterDo =>
          IF IfConditionResult(ctx, Running)
          THEN ctx'.doRuns = ctx.doRuns
          ELSE ctx'.doRuns > ctx.doRuns]_vars


\* The OperationBlocks with the given id among the sections executed so far
Operations(id) ==
    {executed[i] : i \in {j \in 1..Len(executed) :
                             /\ executed[j].kind = "OperationBlock"
                             /\ executed[j].id = id}}

\* The lines an engine state has written beyond those of ctx
Added(E) == SubSeq(E.out, Len(ctx.out) + 1, Len(E.out))

\* C18 as stated: `Run operation[id]`, when the program has one
\* OperationBlock with that id, executes the body statements of that
\* operation: every line the body writes when it is executed now is
\* written by the Run statement.
C18_RunExecutesBody ==
    [][(Runs({"RunOperationStmt"}) /\ Cardinality(Operations(Running.operationId)) = 1) =>
          LET op == CHOOSE o \in Operations(Running.operationId) : TRUE
          IN  Lines(Added(executeStatements(ctx, op.body))) \subseteq Lines(Added(ctx'))]_vars


\* The line Say must print for a message: the string form of the value of
\* the innermost binding of the message, the message itself when no scope
\* of the chain binds it
SayLine(chain, message) ==
    IF Binders(chain, message) = {} THEN message
    ELSE toString(chain[Max(Binders(chain, message))][message].value)

\* C19: executing `Say msg` prints exactly one line, the string form of the
\* value bound to msg when the scope chain binds msg and the text msg
\* otherwise, and changes no binding.
C19_SayPrintsOneLine ==
    [][Runs({"SayStmt"}) =>
          /\ ctx'.out = Append(ctx.out, SayLine(ctx.chain, Running.message))
          /\ ctx'.chain = ctx.chain]_vars

\* C19 witness: after `Let x = 5`, `Say x` has printed the string form of
\* 5.0 and `Say hi`, of an unbound name, has printed hi.
C19_Witness ==
    /\ executed = <<LetStmt("x", "5"), SayStmt("x"), SayStmt("hi")>>
    /\ ctx.out = <<"5.000000", "hi">>
    /\ lookup(ctx.chain, "x").value = FloatValue(5 * One)
    /\ lookup(ctx.chain, "hi") = Null


\* The names SymbolTable::initializeBuiltIns seeds
SeededNames == DOMAIN initializeBuiltIns(EmptyScope)

\* No Let statement has bound the name: the chain does not bind it, or binds
\* it to the builtin it was seeded with
NotLetBound(chain, name) ==
    \/ lookup(chain, name) = Null
    \/ lookup(chain, name).type = "BUILTIN"

\* C29: `Say m`, where no Let has bound m, prints m verbatim, also when m is
\* the name of a seeded builtin (Say, open, Read, Write, DO); and a Let
\* never replaces or removes the binding of a seeded builtin.
C29_SayUnboundVerbatim ==
    [][/\ (Runs({"SayStmt"}) /\ NotLetBound(ctx.chain, Running.message)) =>
              ctx'.out = Append(ctx.out, Running.message)
       /\ Runs({"LetStmt"}) =>
              \A name \in SeededNames :
                  lookup(ctx'.chain, name) = lookup(ctx.chain, name)]_vars

(***************************************************************************)
(* Properties of the builtins registry.                                    *)
(***************************************************************************)
\* C20 as stated: a lookup of a name that is not registered fails with
\* UnknownBuiltin, and the implementation of a builtin whose argCount is 0
\* or more, called with another number of arguments, fails with
\* ArityMismatch instead of returning a value.
C20_InvokeChecked ==
    /\ (invoked.op = "getBuiltin" /\ ~isBuiltin(builtins_, invoked.name)) =>
           invoked.thrown = "UnknownBuiltin"
    /\ (/\ invoked.op = "implementation"
        /\ builtins_[invoked.name].argCount >= 0
        /\ Len(invoked.args) # builtins_[invoked.name].argCount) =>
           invoked.thrown = "ArityMismatch"


(***************************************************************************)
(* Properties of Value.                                                    *)
(***************************************************************************)
\* The last step divided, by the operator / or by the Divide builtin
Divided == applied.op \in {"/", "Divide"}

\* C21: dividing by a Value whose float form has a magnitude below 1e-10,
\* with the operator / or with the Divide builtin on two arguments, fails
\* with the error Division by zero and yields no value; a divisor whose
\* magnitude is 1e-10 or more never fails so.
C21_DivisionByZero ==
    Divided =>
        IF Abs(toFloat(applied.right)) < Epsilon
        THEN applied.thrown = "Division by zero" /\ applied.ret = Null
        ELSE applied.thrown = "none" /\ applied.ret.type = "FLOAT"

\* C21 witness: the Divide builtin has refused a divisor that is not zero
\* and lies below 1e-10.
C21_Witness ==
    /\ applied.op = "Divide"
    /\ applied.right = FloatValue(Epsilon - 1)
    /\ applied.thrown = "Division by zero"


\* The last step compared two Values of which none is a string
ComparedNumbers ==
    /\ applied.op \in {"==", "!=", "<", "<=", ">", ">="}
    /\ applied.left.type # "STRING"
    /\ applied.right.type # "STRING"

\* C26: for two Values that are not strings the ordering operators use the
\* epsilon of equality: whenever a == b holds, a < b and a > b are false and
\* a <= b and a >= b are true.
C26_OrderingUsesEpsilon ==
    ComparedNumbers /\ Equals(applied.left, applied.right) =>
        /\ applied.op \in {"<", ">"} => applied.ret = FALSE
        /\ applied.op \in {"<=", ">="} => applied.ret = TRUE


(***************************************************************************)
(* Properties of the driver's stages.                                      *)
(***************************************************************************)
\* The positions of main in the order of its stages
Stages == <<"start", "lex", "parse", "analyze", "reparse", "execute", "exit">>

\* The place of a position in that order
StageIndex(p) == CHOOSE i \in 1..Len(Stages) : Stages[i] = p

\* Every stage has completed: both parses and the analysis have produced
\* their result and the last line printed is the one after the execution
AllStagesCompleted ==
    /\ program # NoNode
    /\ symbolTable # <<>>
    /\ execProgram # NoNode
    /\ cout # <<>>
    /\ cout[Len(cout)] = "=== Compilation Successful ==="

\* The run has ended with the exit code 0 or 1 that tells how it went
ExitCodeTells ==
    exitCode # NoExit =>
        IF AllStagesCompleted THEN exitCode = 0 ELSE exitCode = 1 /\ cerr # <<>>

\* C22: the driver runs the stages strictly in the order lex, parse, analyze,
\* re-parse, execute, and execution starts only after the analysis has
\* completed; when the file does not open or a stage fails no later stage runs
\* and the exit code is 1; the exit code is 0 only when every stage completed.
C22_StagesInOrder ==
    [][/\ pc' # pc =>
            \/ pc' = Stages[StageIndex(pc) + 1]
            \/ pc' = "exit" /\ exitCode' = 1
       /\ pc' = "execute" => symbolTable' # <<>>
       /\ ExitCodeTells']_vars


(***************************************************************************)
(* Properties of the order of the sections.                                *)
(***************************************************************************)
\* The lines the statements of a section write when the section is executed
Printed(text) ==
    CASE text = SystemCallSection -> <<"Hello world">>
      [] text = FunctionSection -> <<"on", "Running operation 2">>
      [] OTHER -> <<>>

\* The lines of the sections of ts, in the order of ts
RECURSIVE PrintedAll(_)
PrintedAll(ts) == IF ts = <<>> THEN <<>> ELSE Printed(Head(ts)) \o PrintedAll(Tail(ts))

\* C23: for every accepted token sequence the ProgramBlock holds the sections
\* in source order with at most one ExecuteBlockStmt, which is the last
\* section when present; executeProgram processes the sections in that order.
C23_SectionsInOrder ==
    /\ program # NoNode =>
           \A i \in 1..Len(program.sections) :
               program.sections[i].kind = "ExecuteBlockStmt" => i = Len(program.sections)
    /\ \A ts \in SectionSeqs :
           (PastParse /\ file.content = Header \o Join(ts) \o ExecutePlain) =>
               /\ program.kind = "ProgramBlock"
               /\ [i \in 1..Len(program.sections) |-> program.sections[i].kind]
                      = [i \in 1..Len(ts) |-> KindOf(ts[i])] \o <<"ExecuteBlockStmt">>
               /\ pc = "exit" =>
                      /\ execProgram = program
                      /\ ctx.out = PrintedAll(ts) \o <<"Executing block 1">>

\* C23 witness: a program whose function section precedes its system call
\* section has been parsed and executed.
C23_Witness ==
    /\ pc = "exit"
    /\ exitCode = 0
    /\ file.content = Header \o FunctionSection \o SystemCallSection \o ExecutePlain
    /\ ctx.out = <<"on", "Running operation 2", "Hello world", "Executing block 1">>


(***************************************************************************)
(* Properties of the Parser.                                               *)
(***************************************************************************)
\* parseStatement on the tokens of the text t followed by a semicolon
WithSemicolon(t) == parseStatement(NewParser(tokenize(t \o ";").tokens))

\* C24: parseStatementWithoutSemicolon accepts every statement that
\* parseStatement accepts (Let, Say, Run, If, While, open, Read, Write, NOW,
\* DO, Until, assignment, increment) once its closing semicolon is taken
\* away, and returns the same node.
C24_SameStatements ==
    \A t \in StatementTexts :
        (/\ parsed.op = "parseStatementWithoutSemicolon"
         /\ parsed.source = t
         /\ WithSemicolon(t).P.status = "ok") =>
            /\ parsed.status = "ok"
            /\ parsed.node = WithSemicolon(t).node


\* C27: on every token sequence that ends with one EndOfFile token, a block
\* cut short after `DATA [` or after `Let` included, the position of the
\* parser never moves past the index of the EndOfFile token, so that peek()
\* and advance() never read outside the sequence, and the parse ends with a
\* ProgramBlock or with a reported error.
C27_StaysInsideTokens ==
    parsed.op = "parseProgram" =>
        /\ parsed.tokens[Len(parsed.tokens)].type = "EndOfFile"
        /\ parsed.pos_ <= Len(parsed.tokens) - 1
        /\ \/ parsed.status = "ok" /\ parsed.node.kind = "ProgramBlock"
           \/ parsed.status = "error" /\ parsed.error.what # "none"


\* parseProgram on the tokens of the block without a comment
Uncommented == parseProgram(NewParser(tokenize(Commented(0)).tokens))

\* C28: Comment tokens are transparent to the parser: a comment put between
\* two statements of a section body, between two sections, or between the
\* last section and #EXECUTE_BLOCK or #END_BLOCK changes neither whether the
\* parse succeeds nor the tree it returns.
C28_CommentsTransparent ==
    /\ \A k \in CommentPlaces :
           (/\ parsed.op = "parseProgram"
            /\ parsed.source = Commented(k)
            /\ Len(parsed.tokens) = Len(tokenize(Commented(k)).tokens)) =>
               /\ parsed.status = Uncommented.P.status
               /\ parsed.node = Uncommented.node
    /\ (/\ parsed.op = "parseProgram"
        /\ parsed.source = EndBlockCommented
        /\ Len(parsed.tokens) = Len(tokenize(EndBlockCommented).tokens)) =>
           (parsed.status = "ok") =
               (parseProgram(NewParser(tokenize(EndBlockPlain).tokens)).P.status = "ok")


(***************************************************************************)
(* Properties of the semantic analysis.                                    *)
(***************************************************************************)
\* The names the Let statements of a body bind, nested bodies included
RECURSIVE StatementNames(_)
StatementNames(body) ==
    UNION {LET stmt == body[i]
           IN  CASE stmt.kind = "LetStmt" -> {stmt.name}
                 [] stmt.kind = "IfStmt" ->
                        StatementNames(stmt.thenBody) \cup StatementNames(stmt.elseBody)
                 [] stmt.kind \in {"WhileStmt", "NowStmt", "DoStmt"} ->
                        StatementNames(stmt.body)
                 [] OTHER -> {}
           : i \in 1..Len(body)}

\* The names a section declares: its own name when it is an operation or a
\* function, and the names its statements bind
SectionNames(section) ==
    CASE section.kind = "DataBlock" -> StatementNames(section.statements)
      [] section.kind \in {"OperationBlock", "FunctionBlock"} ->
             {section.name} \cup StatementNames(section.body)
      [] section.kind = "SystemCallBlock" -> StatementNames(section.body)
      [] OTHER -> {}

\* The names a program declares
DeclaredNames(prog) ==
    UNION {SectionNames(prog.sections[i]) : i \in 1..Len(prog.sections)}

\* C30: analyze is scope-balanced and never fails: it returns normally for
\* every tree, and on return the current scope of the analyzer's symbol table
\* is the root scope it started from, holding exactly the seeded builtins, so
\* that no operation, function or variable name the program declares is
\* resolvable afterwards; the symbol table of the evaluator is not touched by
\* the analysis.
C30_AnalyzeBalanced ==
    [][(pc = "analyze" /\ pc' # pc) =>
          /\ pc' = "reparse"
          /\ exitCode' = NoExit
          /\ symbolTable' = NewSymbolTable
          /\ \A name \in DeclaredNames(program) \ SeededNames :
                 lookup(symbolTable', name) = Null
          /\ ctx' = ctx]_vars

\* C30 witness: a program with an operation, a function and Let statements
\* has been analyzed, and the name of the operation is not resolvable.
C30_Witness ==
    /\ pc = "reparse"
    /\ file.content = Header \o LoopSection \o FunctionSection \o ExecutePlain
    /\ DeclaredNames(program) = {"loop", "show", "x", "y", "m"}
    /\ Len(symbolTable) = 1
    /\ lookup(symbolTable, "loop") = Null


\* The analyzer after it has visited the nodes the engine has executed, in
\* the same order: visitOperationBlock and visitFunctionBlock for the blocks,
\* visitStatement for the statements
RECURSIVE Visited(_, _)
Visited(A, nodes) ==
    IF nodes = <<>> THEN A
    ELSE LET node == Head(nodes)
             A1 == CASE node.kind = "OperationBlock" -> visitOperationBlock(A, node)
                     [] node.kind = "FunctionBlock" -> visitFunctionBlock(A, node)
                     [] OTHER -> visitStatement(A, node)
         IN  Visited(A1, Tail(nodes))

\* The names the Let statements of the nodes bind
LetBound(nodes) ==
    UNION {IF nodes[i].kind \in {"OperationBlock", "FunctionBlock"}
           THEN StatementNames(nodes[i].body)
           ELSE StatementNames(<<nodes[i]>>) : i \in 1..Len(nodes)}

\* C25: the scope depth at which the analyzer visits a statement mirrors the
\* depth at which the evaluator executes it, so that a name bound by a Let is
\* resolvable at a later statement during analysis exactly when it is
\* resolvable there during execution.
C25_ScopesMirror ==
    /\ Len(Visited(NewAnalyzer(NewSymbolTable), executed).chain) = Len(ctx.chain)
    /\ \A name \in LetBound(executed) :
           (lookup(Visited(NewAnalyzer(NewSymbolTable), executed).chain, name) # Null)
               = (lookup(ctx.chain, name) # Null)


====
